---- MODULE Spec2Model ----
(***************************************************************************)
(* Order lifecycle of the order service: OrderService (store, read-through *)
(* cache, status state machine), EventPublisherService (Kafka + RabbitMQ)  *)
(* and OrderProcessingProcessor (Bull queue 'order-processing').           *)
(*                                                                         *)
(* Every request and every job attempt is a thread.  A thread yields at    *)
(* each await of the TypeScript code, so one action of the model is one    *)
(* I/O effect (cache read, store read, cache write, store write, emit,     *)
(* enqueue, key scan, key delete) together with the synchronous code that  *)
(* runs after it up to the next await.                                     *)
(***************************************************************************)
EXTENDS Integers, Sequences, FiniteSets, TLC

\* ------------------------------------------------------------------ bounds
MaxOrders == 1
MaxCalls == 2
MaxPrice == 2
MaxQty == 2
MaxItems == 2

\* ------------------------------------------------------- program constants
CACHE_TTL == 300
JOB_ATTEMPTS == 3

\* --------------------------------------------------------------- statuses
PENDING == "pending"
CONFIRMED == "confirmed"
PROCESSING == "processing"
SHIPPED == "shipped"
DELIVERED == "delivered"
CANCELLED == "cancelled"

OrderStatus == {PENDING, CONFIRMED, PROCESSING, SHIPPED, DELIVERED, CANCELLED}

\* null / undefined of a nullable string column or optional dto field
NULL == "<null>"
\* null of the nullable cancelledAt column; real timestamps are >= 1
NoDate == 0

Users == {"u1"}
Clients == {"c1"}
Workers == {"w1"}
Threads == Clients \cup Workers
\* the requests of two clients served at the same time
ClientPool == Clients \cup {"c2"}
\* the workers of a pool that runs two jobs at a time
WorkerPool == Workers \cup {"w2"}

\* ------------------------------------------------------ status validator
\* faulty variant: a shipped order may still be cancelled
validTransitionsCancelShipped(s) ==
  CASE s = PENDING -> {CONFIRMED, CANCELLED}
    [] s = CONFIRMED -> {PROCESSING, CANCELLED}
    [] s = PROCESSING -> {SHIPPED, CANCELLED}
    [] s = SHIPPED -> {DELIVERED, CANCELLED}
    [] s = DELIVERED -> {}
    [] s = CANCELLED -> {}

validTransitions(s) ==
  CASE s = PENDING -> {CONFIRMED, CANCELLED}
    [] s = CONFIRMED -> {PROCESSING, CANCELLED}
    [] s = PROCESSING -> {SHIPPED, CANCELLED}
    [] s = SHIPPED -> {DELIVERED}
    [] s = DELIVERED -> {}
    [] s = CANCELLED -> {}

\* TRUE: returns normally; FALSE: throws BadRequestException
validateStatusTransition(currentStatus, newStatus) ==
  newStatus \in validTransitions(currentStatus)

\* ------------------------------------------------------------- order items
RECURSIVE SumSeq(_)
SumSeq(s) == IF s = <<>> THEN 0 ELSE Head(s) + SumSeq(Tail(s))

\* faulty variant: the quantity is left out of the sum
RECURSIVE reduceTotalUnitPrices(_, _)
reduceTotalUnitPrices(items, sum) ==
  IF items = <<>> THEN sum
  ELSE reduceTotalUnitPrices(Tail(items), sum + Head(items).unitPrice)

\* createOrderDto.items.reduce((sum, item) => sum + item.unitPrice * item.quantity, 0)
RECURSIVE reduceTotal(_, _)
reduceTotal(items, sum) ==
  IF items = <<>> THEN sum
  ELSE reduceTotal(Tail(items), sum + Head(items).unitPrice * Head(items).quantity)

\* createOrderDto.items.map((item) => ({...item, totalPrice: item.unitPrice * item.quantity}))
mapItems(items) ==
  [k \in 1..Len(items) |->
     [unitPrice |-> items[k].unitPrice,
      quantity |-> items[k].quantity,
      totalPrice |-> items[k].unitPrice * items[k].quantity]]

\* faulty variant: the entity is created as already confirmed
createEntityConfirmed(dto) ==
  [id |-> 0,
   userId |-> dto.userId,
   totalAmount |-> reduceTotal(dto.items, 0),
   status |-> CONFIRMED,
   shippingAddress |-> dto.shippingAddress,
   items |-> mapItems(dto.items),
   cancelledAt |-> NoDate,
   cancelReason |-> NULL]

\* the entity built by orderRepository.create(...) in createOrder; id 0 = not saved yet
createEntity(dto) ==
  [id |-> 0,
   userId |-> dto.userId,
   totalAmount |-> reduceTotal(dto.items, 0),
   status |-> PENDING,
   shippingAddress |-> dto.shippingAddress,
   items |-> mapItems(dto.items),
   cancelledAt |-> NoDate,
   cancelReason |-> NULL]

NoOrd ==
  [id |-> 0, userId |-> "", totalAmount |-> 0, status |-> "",
   shippingAddress |-> NULL, items |-> <<>>,
   cancelledAt |-> NoDate, cancelReason |-> NULL]


\* ------------------------------------------------------------------ state
VARIABLES
  store,       \* orders table with its items: store[id], ids are 1..Len(store)
  cacheOrder,  \* Redis entries order:<id>           (id -> cached order)
  cacheList,   \* Redis entries user-orders:<u>:<page>:<limit>
  kafka,       \* events handed to the Kafka client, in emit order
  rabbit,      \* messages handed to the RabbitMQ client, in emit order
  jobs,        \* Bull queue 'order-processing': jobs[j], j = 1..Len(jobs)
  thr,         \* per thread: operation, position and locals
  cacheTtl,    \* seconds to live each Redis entry was stored with
  now,         \* clock read by new Date()
  calls,       \* number of client requests issued so far
  storeKeys    \* typeof cacheManager.store.keys === 'function'

orderVars ==
  <<store, cacheOrder, cacheList, cacheTtl, kafka, rabbit, jobs, thr, now, calls, storeKeys>>

\* ----------------------------------------------------------- state of auth
VARIABLES
  user,           \* the row of the registered account in the users table
  refreshTokens,  \* refresh_tokens table, in insertion order
  sessions,       \* Redis entries session:<sessionId>
  userSessions,   \* Redis entries user-sessions:<userId>
  athr,           \* per auth request: operation, position and locals
  clock,          \* wall clock in minutes, read by new Date() / Date.now()
  logins          \* number of auth requests issued so far

authVars == <<user, refreshTokens, sessions, userSessions, athr, clock, logins>>

vars == <<store, cacheOrder, cacheList, cacheTtl, kafka, rabbit, jobs, thr, now, calls,
          storeKeys,
          user, refreshTokens, sessions, userSessions, athr, clock, logins>>

Put(f, k, v) == [x \in (DOMAIN f) \cup {k} |-> IF x = k THEN v ELSE f[x]]
Del(f, K) == [x \in (DOMAIN f) \ K |-> f[x]]

\* Redis keys `order:${id}` and `user-orders:${userId}:${page}:${limit}`
OrderKey(id) == <<"order", id>>
UserOrdersKey(k) == <<"user-orders", k[1], k[2], k[3]>>

NoList == [orders |-> <<>>, total |-> 0]

IdleThread ==
  [op |-> "idle", pc |-> "idle", phase |-> "", id |-> 0, target |-> "",
   reason |-> NULL, order |-> NoOrd, keys |-> {}, user |-> "", page |-> 0,
   limit |-> 0, job |-> 0, jobErr |-> "", outcome |-> "", result |-> NoOrd,
   list |-> NoList, dto |-> <<>>]

\* ------------------------------------------------------------ AuthService
MaxLogins == 3

\* private readonly MAX_FAILED_ATTEMPTS = 5
MAX_FAILED_ATTEMPTS == 5
\* private readonly LOCK_TIME = 30 * 60 * 1000, in minutes
LOCK_TIME == 30
\* expiresAt.setDate(expiresAt.getDate() + 7), in minutes
REFRESH_TOKEN_TIME == 7 * 24 * 60
\* SESSION_TIMEOUT = 24 * 60 * 60 * 1000, in minutes
SESSION_TIMEOUT == 24 * 60

\* the clock moves in steps of half a lock time, up to two lock times
ClockStep == LOCK_TIME \div 2
MaxClock == LOCK_TIME + LOCK_TIME

ACTIVE == "active"
INACTIVE == "inactive"

AuthClients == {"a1", "a2"}
\* the address of the registered account and one nobody registered
Emails == {"ann@example.com", "bob@example.com"}
\* bcrypt.compare(password, user.password) holds for "right" only
Passwords == {"right", "wrong"}

\* no user loaded
NoUser ==
  [id |-> "", email |-> "", password |-> "", status |-> "",
   failedLoginAttempts |-> 0, lockedUntil |-> NoDate, lastLoginAt |-> NoDate]

\* null of replacedByToken, and a token string no row has; real tokens are >= 1
NoTokenId == 0

\* no refresh token loaded
NoToken ==
  [token |-> NoTokenId, userId |-> "", expiresAt |-> NoDate, revoked |-> FALSE,
   replacedByToken |-> NoTokenId]

IdleAuth ==
  [op |-> "idle", pc |-> "idle", email |-> "", password |-> "", n |-> 0,
   user |-> NoUser, userSessions |-> <<>>, token |-> NoTokenId,
   tokenRecord |-> NoToken, newToken |-> NoTokenId, sessionId |-> 0,
   outcome |-> ""]

registeredUser(status, failed) ==
  [id |-> "u1", email |-> "ann@example.com", password |-> "right",
   status |-> status, failedLoginAttempts |-> failed, lockedUntil |-> NoDate,
   lastLoginAt |-> NoDate]

\* an account registered earlier, active or not, not locked, with fewer than
\* MAX_FAILED_ATTEMPTS failed logins since its last successful one
Accounts ==
  {registeredUser(st, f) :
     st \in {ACTIVE, INACTIVE}, f \in 0..(MAX_FAILED_ATTEMPTS - 1)}

InitAccount(accounts) ==
  /\ user \in accounts
  /\ refreshTokens = <<>>
  /\ sessions = <<>>
  /\ userSessions = <<>>
  /\ athr = [a \in AuthClients |-> IdleAuth]
  /\ clock = 1
  /\ logins = 0

\* nobody has logged in yet; the account is the one register() leaves
InitAuth == InitAccount({registeredUser(ACTIVE, 0)})

\* getUserSessions: (await cacheManager.get(`user-sessions:${userId}`)) || []
getUserSessions(userId) ==
  IF userId \in DOMAIN userSessions THEN userSessions[userId] ELSE <<>>

\* User.isLocked(): this.lockedUntil && new Date() < this.lockedUntil
isLocked(u, date) == u.lockedUntil # NoDate /\ date < u.lockedUntil

\* handleFailedLogin before its save: failedLoginAttempts += 1; lock at the maximum
handleFailedLogin(u, date) ==
  LET failed == u.failedLoginAttempts + 1 IN
  [u EXCEPT !.failedLoginAttempts = failed,
            !.lockedUntil = IF failed >= MAX_FAILED_ATTEMPTS
                            THEN date + LOCK_TIME ELSE @]

\* resetFailedAttempts before its save
resetFailedAttempts(u) == [u EXCEPT !.failedLoginAttempts = 0, !.lockedUntil = NoDate]

\* the auth request ends: its result or error reaches the caller
AuthDone(th, outcome) == [th EXCEPT !.pc = "done", !.outcome = outcome]

CallLogin(a) ==
  /\ a \in AuthClients /\ athr[a].pc = "idle" /\ logins < MaxLogins
  /\ \E e \in Emails, pw \in Passwords :
       athr' = [athr EXCEPT ![a] = [IdleAuth EXCEPT !.op = "login", !.pc = "l_find",
                                       !.email = e, !.password = pw,
                                       !.n = logins + 1]]
  /\ logins' = logins + 1
  /\ UNCHANGED <<user, refreshTokens, sessions, userSessions, clock>>
  /\ UNCHANGED orderVars

\* user = await userRepository.findOne({where: {email}}); if (!user) throw;
\* if (user.isLocked()) throw
LoginFind(a) ==
  /\ athr[a].pc = "l_find"
  /\ athr' = [athr EXCEPT ![a] =
                IF athr[a].email # user.email \/ isLocked(user, clock)
                THEN AuthDone(@, "Unauthorized")
                ELSE [@ EXCEPT !.pc = "l_verify", !.user = user]]
  /\ UNCHANGED <<user, refreshTokens, sessions, userSessions, clock, logins>>
  /\ UNCHANGED orderVars

\* isPasswordValid = await verifyPassword(...); then the synchronous code up to
\* the next save: handleFailedLogin, the status check, resetFailedAttempts or
\* updateLastLogin
LoginVerify(a) ==
  /\ athr[a].pc = "l_verify"
  /\ LET u == athr[a].user IN
       athr' = [athr EXCEPT ![a] =
                  IF athr[a].password # u.password
                  THEN [@ EXCEPT !.pc = "l_fail_save",
                                 !.user = handleFailedLogin(u, clock)]
                  ELSE IF u.status # ACTIVE
                  THEN AuthDone(@, "Unauthorized")
                  ELSE IF u.failedLoginAttempts > 0
                  THEN [@ EXCEPT !.pc = "l_reset_save",
                                 !.user = resetFailedAttempts(u)]
                  ELSE [@ EXCEPT !.pc = "l_last_save",
                                 !.user = [u EXCEPT !.lastLoginAt = clock]]]
  /\ UNCHANGED <<user, refreshTokens, sessions, userSessions, clock, logins>>
  /\ UNCHANGED orderVars

\* handleFailedLogin: await this.userRepository.save(user); throw Unauthorized
LoginFailSave(a) ==
  /\ athr[a].pc = "l_fail_save"
  /\ user' = athr[a].user
  /\ athr' = [athr EXCEPT ![a] = AuthDone(@, "Unauthorized")]
  /\ UNCHANGED <<refreshTokens, sessions, userSessions, clock, logins>>
  /\ UNCHANGED orderVars

\* resetFailedAttempts: await this.userRepository.save(user); then
\* updateLastLogin: user.lastLoginAt = new Date()
LoginResetSave(a) ==
  /\ athr[a].pc = "l_reset_save"
  /\ user' = athr[a].user
  /\ athr' = [athr EXCEPT ![a] = [@ EXCEPT !.pc = "l_last_save",
                                            !.user.lastLoginAt = clock]]
  /\ UNCHANGED <<refreshTokens, sessions, userSessions, clock, logins>>
  /\ UNCHANGED orderVars

\* updateLastLogin: await this.userRepository.save(user)
LoginLastSave(a) ==
  /\ athr[a].pc = "l_last_save"
  /\ user' = athr[a].user
  /\ athr' = [athr EXCEPT ![a] = [@ EXCEPT !.pc = "l_tokens"]]
  /\ UNCHANGED <<refreshTokens, sessions, userSessions, clock, logins>>
  /\ UNCHANGED orderVars

\* generateTokens: sign the access token, createRefreshToken saves a new row
LoginTokens(a) ==
  /\ athr[a].pc = "l_tokens"
  /\ refreshTokens' = Append(refreshTokens,
                             [token |-> Len(refreshTokens) + 1,
                              userId |-> athr[a].user.id,
                              expiresAt |-> clock + REFRESH_TOKEN_TIME,
                              revoked |-> FALSE, replacedByToken |-> NoTokenId])
  /\ athr' = [athr EXCEPT ![a] = [@ EXCEPT !.pc = "s_set",
                                            !.newToken = Len(refreshTokens) + 1]]
  /\ UNCHANGED <<user, sessions, userSessions, clock, logins>>
  /\ UNCHANGED orderVars

\* createSession: await cacheManager.set(`session:${sessionId}`, session, ...)
SessionSet(a) ==
  /\ athr[a].pc = "s_set"
  /\ sessions' = Put(sessions, athr[a].n,
                     [userId |-> athr[a].user.id, createdAt |-> clock,
                      expiresAt |-> clock + SESSION_TIMEOUT])
  /\ athr' = [athr EXCEPT ![a] = [@ EXCEPT !.pc = "s_get"]]
  /\ UNCHANGED <<user, refreshTokens, userSessions, clock, logins>>
  /\ UNCHANGED orderVars

\* createSession: userSessions = await this.getUserSessions(userId); push
SessionGet(a) ==
  /\ athr[a].pc = "s_get"
  /\ athr' = [athr EXCEPT ![a] =
                [@ EXCEPT !.pc = "s_index",
                          !.userSessions = Append(getUserSessions(athr[a].user.id),
                                                  athr[a].n)]]
  /\ UNCHANGED <<user, refreshTokens, sessions, userSessions, clock, logins>>
  /\ UNCHANGED orderVars

\* createSession: await cacheManager.set(`user-sessions:${userId}`, userSessions, ...);
\* login returns {user, tokens}
SessionIndex(a) ==
  /\ athr[a].pc = "s_index"
  /\ userSessions' = Put(userSessions, athr[a].user.id, athr[a].userSessions)
  /\ athr' = [athr EXCEPT ![a] = AuthDone(@, "ok")]
  /\ UNCHANGED <<user, refreshTokens, sessions, clock, logins>>
  /\ UNCHANGED orderVars

\* ------------------------------------------ refreshAccessToken / logout
\* RefreshToken.isExpired(): new Date() >= this.expiresAt
isExpired(tok, date) == date >= tok.expiresAt

\* RefreshToken.isActive(): !this.revoked && !this.isExpired()
isActive(tok, date) == ~tok.revoked /\ ~isExpired(tok, date)

\* refresh tokens a client can present: the random strings that login or
\* refreshAccessToken has returned, not those of calls still running
presentable ==
  DOMAIN refreshTokens \
    {athr[a].newToken :
       a \in {x \in AuthClients : athr[x].pc \in {"r_revoke", "s_set", "s_get", "s_index"}}}

\* a client presents a refresh token string: one it was given or an unknown one
CallRefresh(a) ==
  /\ a \in AuthClients /\ athr[a].pc = "idle" /\ logins < MaxLogins
  /\ \E tk \in {NoTokenId} \cup presentable :
       athr' = [athr EXCEPT ![a] = [IdleAuth EXCEPT !.op = "refresh", !.pc = "r_find",
                                       !.token = tk]]
  /\ logins' = logins + 1
  /\ UNCHANGED <<user, refreshTokens, sessions, userSessions, clock>>
  /\ UNCHANGED orderVars

\* tokenRecord = await refreshTokenRepository.findOne({where: {token}});
\* if (!tokenRecord || !tokenRecord.isActive()) throw Unauthorized
RefreshFind(a) ==
  /\ athr[a].pc = "r_find"
  /\ athr' = [athr EXCEPT ![a] =
                IF athr[a].token \in DOMAIN refreshTokens
                   /\ isActive(refreshTokens[athr[a].token], clock)
                THEN [@ EXCEPT !.pc = "r_access",
                               !.tokenRecord = refreshTokens[athr[a].token]]
                ELSE AuthDone(@, "Unauthorized")]
  /\ UNCHANGED <<user, refreshTokens, sessions, userSessions, clock, logins>>
  /\ UNCHANGED orderVars

\* newAccessToken = await this.generateAccessToken(tokenRecord.user)
RefreshAccess(a) ==
  /\ athr[a].pc = "r_access"
  /\ athr' = [athr EXCEPT ![a] = [@ EXCEPT !.pc = "r_create"]]
  /\ UNCHANGED <<user, refreshTokens, sessions, userSessions, clock, logins>>
  /\ UNCHANGED orderVars

\* rotateRefreshToken: newToken = await this.createRefreshToken(oldToken.user);
\* oldToken.revoked = true; oldToken.replacedByToken = newToken.token
RefreshCreate(a) ==
  /\ athr[a].pc = "r_create"
  /\ refreshTokens' = Append(refreshTokens,
                             [token |-> Len(refreshTokens) + 1,
                              userId |-> athr[a].tokenRecord.userId,
                              expiresAt |-> clock + REFRESH_TOKEN_TIME,
                              revoked |-> FALSE, replacedByToken |-> NoTokenId])
  /\ athr' = [athr EXCEPT ![a] =
                [@ EXCEPT !.pc = "r_revoke",
                          !.newToken = Len(refreshTokens) + 1,
                          !.tokenRecord.revoked = TRUE,
                          !.tokenRecord.replacedByToken = Len(refreshTokens) + 1]]
  /\ UNCHANGED <<user, sessions, userSessions, clock, logins>>
  /\ UNCHANGED orderVars

\* rotateRefreshToken: await this.refreshTokenRepository.save(oldToken);
\* refreshAccessToken returns {accessToken, refreshToken}
RefreshRevoke(a) ==
  /\ athr[a].pc = "r_revoke"
  /\ refreshTokens' = [refreshTokens EXCEPT ![athr[a].token] = athr[a].tokenRecord]
  /\ athr' = [athr EXCEPT ![a] = AuthDone(@, "ok")]
  /\ UNCHANGED <<user, sessions, userSessions, clock, logins>>
  /\ UNCHANGED orderVars

CallLogout(a) ==
  /\ a \in AuthClients /\ athr[a].pc = "idle" /\ logins < MaxLogins
  /\ \E tk \in {NoTokenId} \cup presentable :
       athr' = [athr EXCEPT ![a] = [IdleAuth EXCEPT !.op = "logout", !.pc = "o_find",
                                       !.token = tk]]
  /\ logins' = logins + 1
  /\ UNCHANGED <<user, refreshTokens, sessions, userSessions, clock>>
  /\ UNCHANGED orderVars

\* tokenRecord = await findOne({where: {token}}); if (tokenRecord) revoked = true
LogoutFind(a) ==
  /\ athr[a].pc = "o_find"
  /\ athr' = [athr EXCEPT ![a] =
                IF athr[a].token \in DOMAIN refreshTokens
                THEN [@ EXCEPT !.pc = "o_save",
                               !.tokenRecord =
                                 [refreshTokens[athr[a].token] EXCEPT !.revoked = TRUE]]
                ELSE AuthDone(@, "ok")]
  /\ UNCHANGED <<user, refreshTokens, sessions, userSessions, clock, logins>>
  /\ UNCHANGED orderVars

\* await this.refreshTokenRepository.save(tokenRecord)
LogoutSave(a) ==
  /\ athr[a].pc = "o_save"
  /\ refreshTokens' = [refreshTokens EXCEPT ![athr[a].token] = athr[a].tokenRecord]
  /\ athr' = [athr EXCEPT ![a] = AuthDone(@, "ok")]
  /\ UNCHANGED <<user, sessions, userSessions, clock, logins>>
  /\ UNCHANGED orderVars

\* ----------------------------------------------------------- SessionService
\* createSession(userId, ip) called for the registered user
CallCreateSession(a) ==
  /\ a \in AuthClients /\ athr[a].pc = "idle" /\ logins < MaxLogins
  /\ athr' = [athr EXCEPT ![a] = [IdleAuth EXCEPT !.op = "createSession",
                                     !.pc = "s_set", !.user = user,
                                     !.n = logins + 1]]
  /\ logins' = logins + 1
  /\ UNCHANGED <<user, refreshTokens, sessions, userSessions, clock>>
  /\ UNCHANGED orderVars

CallDeleteSession(a) ==
  /\ a \in AuthClients /\ athr[a].pc = "idle" /\ logins < MaxLogins
  /\ \E sid \in 1..MaxLogins :
       athr' = [athr EXCEPT ![a] = [IdleAuth EXCEPT !.op = "deleteSession",
                                       !.pc = "d_get", !.sessionId = sid]]
  /\ logins' = logins + 1
  /\ UNCHANGED <<user, refreshTokens, sessions, userSessions, clock>>
  /\ UNCHANGED orderVars

\* session = await this.getSession(sessionId); if (session) ...
DeleteGet(a) ==
  /\ athr[a].pc = "d_get"
  /\ athr' = [athr EXCEPT ![a] =
                IF athr[a].sessionId \in DOMAIN sessions
                THEN [@ EXCEPT !.pc = "d_del",
                               !.user.id = sessions[athr[a].sessionId].userId]
                ELSE AuthDone(@, "ok")]
  /\ UNCHANGED <<user, refreshTokens, sessions, userSessions, clock, logins>>
  /\ UNCHANGED orderVars

\* await this.cacheManager.del(`session:${sessionId}`)
DeleteDel(a) ==
  /\ athr[a].pc = "d_del"
  /\ sessions' = Del(sessions, {athr[a].sessionId})
  /\ athr' = [athr EXCEPT ![a] = [@ EXCEPT !.pc = "d_list"]]
  /\ UNCHANGED <<user, refreshTokens, userSessions, clock, logins>>
  /\ UNCHANGED orderVars

\* userSessions = await getUserSessions(userId); index = indexOf(sessionId);
\* if (index > -1) splice
DeleteList(a) ==
  /\ athr[a].pc = "d_list"
  /\ LET ids == getUserSessions(athr[a].user.id) IN
       athr' = [athr EXCEPT ![a] =
                  IF \E k \in DOMAIN ids : ids[k] = athr[a].sessionId
                  THEN [@ EXCEPT !.pc = "d_index",
                                 !.userSessions =
                                   SelectSeq(ids, LAMBDA x : x # athr[a].sessionId)]
                  ELSE AuthDone(@, "ok")]
  /\ UNCHANGED <<user, refreshTokens, sessions, userSessions, clock, logins>>
  /\ UNCHANGED orderVars

\* await this.cacheManager.set(`user-sessions:${userId}`, userSessions)
DeleteIndex(a) ==
  /\ athr[a].pc = "d_index"
  /\ userSessions' = Put(userSessions, athr[a].user.id, athr[a].userSessions)
  /\ athr' = [athr EXCEPT ![a] = AuthDone(@, "ok")]
  /\ UNCHANGED <<user, refreshTokens, sessions, clock, logins>>
  /\ UNCHANGED orderVars

\* deleteAllUserSessions(userId) called for the registered user
CallDeleteAll(a) ==
  /\ a \in AuthClients /\ athr[a].pc = "idle" /\ logins < MaxLogins
  /\ athr' = [athr EXCEPT ![a] = [IdleAuth EXCEPT !.op = "deleteAllUserSessions",
                                     !.pc = "a_list", !.user = user]]
  /\ logins' = logins + 1
  /\ UNCHANGED <<user, refreshTokens, sessions, userSessions, clock>>
  /\ UNCHANGED orderVars

\* sessionIds = await this.getUserSessions(userId)
DeleteAllList(a) ==
  /\ athr[a].pc = "a_list"
  /\ athr' = [athr EXCEPT ![a] =
                [@ EXCEPT !.pc = "a_del",
                          !.userSessions = getUserSessions(athr[a].user.id)]]
  /\ UNCHANGED <<user, refreshTokens, sessions, userSessions, clock, logins>>
  /\ UNCHANGED orderVars

\* await Promise.all(sessionIds.map((id) => cacheManager.del(`session:${id}`)))
DeleteAllDel(a) ==
  /\ athr[a].pc = "a_del"
  /\ sessions' = Del(sessions, {athr[a].userSessions[k] :
                                  k \in DOMAIN athr[a].userSessions})
  /\ athr' = [athr EXCEPT ![a] = [@ EXCEPT !.pc = "a_index"]]
  /\ UNCHANGED <<user, refreshTokens, userSessions, clock, logins>>
  /\ UNCHANGED orderVars

\* await this.cacheManager.del(`user-sessions:${userId}`)
DeleteAllIndex(a) ==
  /\ athr[a].pc = "a_index"
  /\ userSessions' = Del(userSessions, {athr[a].user.id})
  /\ athr' = [athr EXCEPT ![a] = AuthDone(@, "ok")]
  /\ UNCHANGED <<user, refreshTokens, sessions, clock, logins>>
  /\ UNCHANGED orderVars

\* the caller has taken the result
AuthReturn(a) ==
  /\ athr[a].pc = "done"
  /\ athr' = [athr EXCEPT ![a] = IdleAuth]
  /\ UNCHANGED <<user, refreshTokens, sessions, userSessions, clock, logins>>
  /\ UNCHANGED orderVars

\* time passes
Tick ==
  /\ clock + ClockStep <= MaxClock
  /\ clock' = clock + ClockStep
  /\ UNCHANGED <<user, refreshTokens, sessions, userSessions, athr, logins>>
  /\ UNCHANGED orderVars

Init ==
  /\ store = <<>>
  /\ cacheOrder = <<>>
  /\ cacheList = <<>>
  /\ cacheTtl = <<>>
  /\ kafka = <<>>
  /\ rabbit = <<>>
  /\ jobs = <<>>
  /\ thr = [t \in Threads |-> IdleThread]
  /\ now = 0
  /\ calls = 0
  /\ storeKeys = TRUE
  /\ InitAuth

\* error.message of the errors the handlers can see
Message(e) ==
  CASE e = "NotFound" -> "Order not found"
    [] e = "BadRequest" -> "Invalid status transition"
    [] e = "NoItems" -> "Order has no items"
    [] e = "Inventory" -> "Insufficient inventory"
    [] e = "PublishFailure" -> "publish failed"
    [] e = "QueueFailure" -> "enqueue failed"
    [] e = "DbError" -> "save failed"
    [] OTHER -> "error"

\* the operation of a thread ends: its result or error reaches the caller
Done(th, outcome, result) ==
  [th EXCEPT !.pc = "done", !.phase = "", !.outcome = outcome,
             !.result = result, !.order = NoOrd, !.keys = {}]

\* ------------------------------------------------- process-order job ends
\* faulty variant: a failed attempt fails the job at once, without any retry
JobFailNoRetry(th, e) ==
  [t |-> Done(th, e, NoOrd),
   jobs |-> [jobs EXCEPT ![th.job].attemptsMade = @ + 1,
                         ![th.job].state = "failed"]]

\* faulty variant: a failed attempt is always retried
JobFailAlwaysRetries(th, e) ==
  [t |-> Done(th, e, NoOrd),
   jobs |-> [jobs EXCEPT ![th.job].attemptsMade = @ + 1,
                         ![th.job].state = "delayed"]]

\* the handler threw: Bull counts the attempt and retries or fails the job
JobFail(th, e) ==
  LET made == jobs[th.job].attemptsMade + 1 IN
  [t |-> Done(th, e, NoOrd),
   jobs |-> [jobs EXCEPT ![th.job].attemptsMade = made,
                         ![th.job].state = IF made < JOB_ATTEMPTS
                                           THEN "delayed" ELSE "failed"]]

\* the handler returned: removeOnComplete removes the job record
JobSucceed(th) ==
  [t |-> Done(th, "ok", th.order),
   jobs |-> [jobs EXCEPT ![th.job].attemptsMade = @ + 1,
                         ![th.job].state = "removed"]]

\* catch (error) of handleOrderProcessing: updateStatus(orderId, CANCELLED, error.message)
EnterCatch(th, e) ==
  [th EXCEPT !.phase = "cancel", !.pc = "f_get", !.target = CANCELLED,
             !.reason = Message(e), !.jobErr = e, !.order = NoOrd]

\* an error thrown by findOne or updateStatus reaches the caller of thread th
Throws(th, e) ==
  IF th.op # "job" THEN [t |-> Done(th, e, NoOrd), jobs |-> jobs]
  ELSE IF th.phase \in {"validate", "confirm"}
       THEN [t |-> EnterCatch(th, e), jobs |-> jobs]
       ELSE JobFail(th, e)

\* findOne returns order o to its caller in thread th
FindOneReturns(th, o) ==
  IF th.op = "findOne" THEN [t |-> Done(th, "ok", o), jobs |-> jobs]
  ELSE IF th.op = "job" /\ th.phase = "validate"
       THEN \* validateOrder: if (!order.items || order.items.length === 0) throw
            IF Len(o.items) = 0
            THEN [t |-> EnterCatch(th, "NoItems"), jobs |-> jobs]
            ELSE [t |-> [th EXCEPT !.pc = "j_inventory", !.order = NoOrd],
                  jobs |-> jobs]
       ELSE IF th.op = "job" /\ th.phase = "invoice"
       THEN \* handleInvoiceGeneration: const order = await findOne(orderId)
            [t |-> [th EXCEPT !.pc = "i_pdf", !.order = o], jobs |-> jobs]
       ELSE [t |-> [th EXCEPT !.pc = "u_save", !.order = o], jobs |-> jobs]

\* updateStatus returns order o to its caller in thread th
UpdateReturns(th, o) ==
  IF th.op # "job" THEN [t |-> Done(th, "ok", o), jobs |-> jobs]
  ELSE IF th.phase = "confirm" THEN JobSucceed(th)
       ELSE JobFail(th, th.jobErr)

Step(t, r) ==
  /\ thr' = [thr EXCEPT ![t] = r.t]
  /\ jobs' = r.jobs


\* ------------------------------------------------------- request inputs
Item(p, q) == [unitPrice |-> p, quantity |-> q]

\* item lists the validation pipe lets through: quantity >= 1, unitPrice >= 0,
\* and (IsArray only) also the empty list
RECURSIVE ItemLists(_)
ItemLists(n) ==
  IF n = 0 THEN {<<>>}
  ELSE LET shorter == ItemLists(n - 1) IN
       shorter \cup {Append(l, Item(p, q)) :
                       l \in {x \in shorter : Len(x) = n - 1},
                       p \in 0..MaxPrice, q \in 1..MaxQty}

\* shippingAddress of a request: the structured address, taken as a whole
Addresses == {"addr1"}

AllDtos == [userId : Users, items : ItemLists(MaxItems), shippingAddress : Addresses]
FewDtos ==
  {[userId |-> u, items |-> l, shippingAddress |-> a] :
     u \in Users, l \in {<<>>, <<Item(MaxPrice, 1)>>}, a \in Addresses}

Reasons == {NULL, "customer request"}
\* updateStatus reads dto.cancelReason only when dto.status is CANCELLED
ReasonsFor(status) == IF status = CANCELLED THEN Reasons ELSE {NULL}
Pages == {1}
Limits == {10}

\* ------------------------------------------------------- event envelopes
\* the event built by publishOrderCreated
createdEvent(order) ==
  [eventType |-> "ORDER_CREATED", orderId |-> order.id, userId |-> order.userId,
   totalAmount |-> order.totalAmount, status |-> order.status,
   itemCount |-> Len(order.items)]

\* event e handed to kafkaClient.emit while the broker cannot take it: the
\* Observable emit returns is not awaited or subscribed to, so its error
\* reaches nobody
Lost(e) == [x \in (DOMAIN e) \cup {"lost"} |-> IF x = "lost" THEN TRUE ELSE e[x]]

\* ------------------------------------------------------------ createOrder
CallCreateOrder(t, dtos) ==
  /\ t \in Clients /\ thr[t].pc = "idle"
  /\ Len(store) + Cardinality({x \in Threads : thr[x].pc = "c_save"}) < MaxOrders
  /\ \E dto \in dtos :
       thr' = [thr EXCEPT ![t] = [IdleThread EXCEPT !.op = "createOrder",
                                     !.pc = "c_save", !.user = dto.userId,
                                     !.dto = dto.items,
                                     !.order = createEntity(dto)]]
  /\ UNCHANGED <<store, cacheOrder, cacheList, kafka, rabbit, jobs, now, calls, cacheTtl>>
  /\ UNCHANGED <<storeKeys, authVars>>

\* the request that created the first order is sent once more: same userId,
\* same items
CallCreateOrderAgain(t) ==
  /\ t \in Clients /\ thr[t].pc = "idle"
  /\ Len(store) = 1 /\ \A x \in DOMAIN thr : thr[x].pc # "c_save"
  /\ LET first == store[1]
         dto == [userId |-> first.userId,
                 shippingAddress |-> first.shippingAddress,
                 items |-> [k \in 1..Len(first.items) |->
                              Item(first.items[k].unitPrice, first.items[k].quantity)]]
     IN thr' = [thr EXCEPT ![t] = [IdleThread EXCEPT !.op = "createOrder",
                                     !.pc = "c_save", !.user = dto.userId,
                                     !.dto = dto.items,
                                     !.order = createEntity(dto)]]
  /\ UNCHANGED <<store, cacheOrder, cacheList, cacheTtl, kafka, rabbit, jobs, now, calls>>
  /\ UNCHANGED <<storeKeys, authVars>>

\* faulty variant: the job is enqueued right after the save, before any publish
CreateSaveThenEnqueue(t) ==
  /\ thr[t].pc = "c_save"
  /\ LET saved == [thr[t].order EXCEPT !.id = Len(store) + 1] IN
       /\ store' = Append(store, saved)
       /\ thr' = [thr EXCEPT ![t] = [@ EXCEPT !.pc = "c_enqueue", !.order = saved,
                                           !.id = saved.id]]
  /\ UNCHANGED <<cacheOrder, cacheList, kafka, rabbit, jobs, now, calls, cacheTtl>>
  /\ UNCHANGED <<storeKeys, authVars>>

\* const savedOrder = await this.orderRepository.save(order)
CreateSave(t) ==
  /\ thr[t].pc = "c_save"
  /\ LET saved == [thr[t].order EXCEPT !.id = Len(store) + 1] IN
       /\ store' = Append(store, saved)
       /\ thr' = [thr EXCEPT ![t] = [@ EXCEPT !.pc = "c_pubA", !.order = saved,
                                           !.id = saved.id]]
  /\ UNCHANGED <<cacheOrder, cacheList, kafka, rabbit, jobs, now, calls, cacheTtl>>
  /\ UNCHANGED <<storeKeys, authVars>>

\* faulty variant: the created event is emitted before the save, which then fails
CreateSaveFailsAfterEmit(t) ==
  /\ thr[t].pc = "c_save"
  /\ kafka' = Append(kafka, createdEvent(thr[t].order))
  /\ thr' = [thr EXCEPT ![t] = Done(@, "DbError", NoOrd)]
  /\ UNCHANGED <<store, cacheOrder, cacheList, rabbit, jobs, now, calls, cacheTtl>>
  /\ UNCHANGED <<storeKeys, authVars>>

CreateSaveFails(t) ==
  /\ thr[t].pc = "c_save"
  /\ thr' = [thr EXCEPT ![t] = Done(@, "DbError", NoOrd)]
  /\ UNCHANGED <<store, cacheOrder, cacheList, kafka, rabbit, jobs, now, calls, cacheTtl>>
  /\ UNCHANGED <<storeKeys, authVars>>

\* this.kafkaClient.emit('order.created', event)
CreatePubA(t) ==
  /\ thr[t].pc = "c_pubA"
  /\ kafka' = Append(kafka, createdEvent(thr[t].order))
  /\ thr' = [thr EXCEPT ![t] = [@ EXCEPT !.pc = "c_pubB"]]
  /\ UNCHANGED <<store, cacheOrder, cacheList, rabbit, jobs, now, calls, cacheTtl>>
  /\ UNCHANGED <<storeKeys, authVars>>


\* this.kafkaClient.emit('order.created', event) with Kafka unavailable
CreatePubALost(t) ==
  /\ thr[t].pc = "c_pubA"
  /\ kafka' = Append(kafka, Lost(createdEvent(thr[t].order)))
  /\ thr' = [thr EXCEPT ![t] = [@ EXCEPT !.pc = "c_pubB"]]
  /\ UNCHANGED <<store, cacheOrder, cacheList, rabbit, jobs, now, calls, cacheTtl>>
  /\ UNCHANGED <<storeKeys, authVars>>

\* await this.rabbitMqClient.emit('order_created', event).toPromise()
CreatePubB(t) ==
  /\ thr[t].pc = "c_pubB"
  /\ rabbit' = Append(rabbit, createdEvent(thr[t].order))
  /\ thr' = [thr EXCEPT ![t] = [@ EXCEPT !.pc = "c_enqueue"]]
  /\ UNCHANGED <<store, cacheOrder, cacheList, kafka, jobs, now, calls, cacheTtl>>
  /\ UNCHANGED <<storeKeys, authVars>>

\* faulty variant: a failed RabbitMQ emit takes the event back from Kafka
CreatePubBFailsRetracts(t) ==
  /\ thr[t].pc = "c_pubB"
  /\ kafka' = SubSeq(kafka, 1, Len(kafka) - 1)
  /\ thr' = [thr EXCEPT ![t] = Done(@, "PublishFailure", NoOrd)]
  /\ UNCHANGED <<store, cacheOrder, cacheList, cacheTtl, rabbit, jobs, now, calls>>
  /\ UNCHANGED <<storeKeys, authVars>>

\* faulty variant: a failed publish removes the order saved before
CreatePubBFailsRollback(t) ==
  /\ thr[t].pc = "c_pubB"
  /\ store' = SubSeq(store, 1, thr[t].order.id - 1)
  /\ thr' = [thr EXCEPT ![t] = Done(@, "PublishFailure", NoOrd)]
  /\ UNCHANGED <<cacheOrder, cacheList, kafka, rabbit, jobs, now, calls, cacheTtl>>
  /\ UNCHANGED <<storeKeys, authVars>>

CreatePubBFails(t) ==
  /\ thr[t].pc = "c_pubB"
  /\ thr' = [thr EXCEPT ![t] = Done(@, "PublishFailure", NoOrd)]
  /\ UNCHANGED <<store, cacheOrder, cacheList, kafka, rabbit, jobs, now, calls, cacheTtl>>
  /\ UNCHANGED <<storeKeys, authVars>>

\* faulty variant: no job is added when the queue already holds a job for an
\* order of the same user with the same items
CreateEnqueueDeduplicates(t) ==
  /\ thr[t].pc = "c_enqueue"
  /\ jobs' = IF \E j \in DOMAIN jobs :
                  /\ jobs[j].userId = thr[t].order.userId
                  /\ store[jobs[j].orderId].items = thr[t].order.items
             THEN jobs
             ELSE Append(jobs, [name |-> "process-order", orderId |-> thr[t].order.id,
                                userId |-> thr[t].order.userId, attemptsMade |-> 0,
                                state |-> "waiting", progress |-> 0])
  /\ thr' = [thr EXCEPT ![t] = [@ EXCEPT !.pc = "inv_keys"]]
  /\ UNCHANGED <<store, cacheOrder, cacheList, cacheTtl, kafka, rabbit, now, calls>>
  /\ UNCHANGED <<storeKeys, authVars>>

\* await this.orderQueue.add('process-order', {orderId, userId})
CreateEnqueue(t) ==
  /\ thr[t].pc = "c_enqueue"
  /\ jobs' = Append(jobs, [name |-> "process-order", orderId |-> thr[t].order.id,
                           userId |-> thr[t].order.userId, attemptsMade |-> 0,
                           state |-> "waiting", progress |-> 0])
  /\ thr' = [thr EXCEPT ![t] = [@ EXCEPT !.pc = "inv_keys"]]
  /\ UNCHANGED <<store, cacheOrder, cacheList, kafka, rabbit, now, calls, cacheTtl>>
  /\ UNCHANGED <<storeKeys, authVars>>

CreateEnqueueFails(t) ==
  /\ thr[t].pc = "c_enqueue"
  /\ thr' = [thr EXCEPT ![t] = Done(@, "QueueFailure", NoOrd)]
  /\ UNCHANGED <<store, cacheOrder, cacheList, kafka, rabbit, jobs, now, calls, cacheTtl>>
  /\ UNCHANGED <<storeKeys, authVars>>

\* ------------------------------------------- invalidateUserOrdersCache
\* what the caller of invalidateUserOrdersCache does next: both callers return
InvReturns(th) ==
  IF th.op = "createOrder" THEN [t |-> Done(th, "ok", th.order), jobs |-> jobs]
  ELSE UpdateReturns(th, th.order)

\* faulty variant: without store.keys the call is made anyway and throws
InvKeysThrowsUnsupported(t) ==
  /\ thr[t].pc = "inv_keys"
  /\ LET keys == {k \in DOMAIN cacheList : k[1] = thr[t].order.userId} IN
       IF ~storeKeys
       THEN Step(t, [t |-> Done(thr[t], "TypeError", NoOrd), jobs |-> jobs])
       ELSE IF keys = {}
       THEN Step(t, InvReturns(thr[t]))
       ELSE /\ thr' = [thr EXCEPT ![t] = [@ EXCEPT !.pc = "inv_del", !.keys = keys]]
            /\ UNCHANGED jobs
  /\ UNCHANGED <<store, cacheOrder, cacheList, kafka, rabbit, now, calls, cacheTtl>>
  /\ UNCHANGED <<storeKeys, authVars>>

\* keys = typeof store?.keys === 'function'
\*          ? await store.keys(`user-orders:${userId}:*`) : [];
\* if (keys.length === 0) return
InvKeys(t) ==
  /\ thr[t].pc = "inv_keys"
  /\ LET keys == IF storeKeys
                 THEN {k \in DOMAIN cacheList : k[1] = thr[t].order.userId}
                 ELSE {} IN
       IF keys = {}
       THEN Step(t, InvReturns(thr[t]))
       ELSE /\ thr' = [thr EXCEPT ![t] = [@ EXCEPT !.pc = "inv_del", !.keys = keys]]
            /\ UNCHANGED jobs
  /\ UNCHANGED <<store, cacheOrder, cacheList, kafka, rabbit, now, calls, cacheTtl>>
  /\ UNCHANGED <<storeKeys, authVars>>

\* await Promise.all(keys.map((key) => this.cacheManager.del(key)))
InvDel(t) ==
  /\ thr[t].pc = "inv_del"
  /\ cacheList' = Del(cacheList, thr[t].keys)
  /\ cacheTtl' = Del(cacheTtl, {UserOrdersKey(k) : k \in thr[t].keys})
  /\ Step(t, InvReturns(thr[t]))
  /\ UNCHANGED <<store, cacheOrder, kafka, rabbit, now, calls>>
  /\ UNCHANGED <<storeKeys, authVars>>

\* ---------------------------------------------------------------- findOne
CallFindOne(t) ==
  /\ t \in ClientPool /\ thr[t].pc = "idle" /\ calls < MaxCalls
  /\ \E id \in 1..MaxOrders :
       thr' = [thr EXCEPT ![t] = [IdleThread EXCEPT !.op = "findOne",
                                     !.pc = "f_get", !.id = id]]
  /\ calls' = calls + 1
  /\ UNCHANGED <<store, cacheOrder, cacheList, kafka, rabbit, jobs, now, cacheTtl>>
  /\ UNCHANGED <<storeKeys, authVars>>

\* faulty variant: the store is read even when the cache has the entry
FindOneGetAlwaysReads(t) ==
  /\ thr[t].pc = "f_get"
  /\ thr' = [thr EXCEPT ![t] = [@ EXCEPT !.pc = "f_read"]]
  /\ UNCHANGED <<store, cacheOrder, cacheList, cacheTtl, kafka, rabbit, jobs, now, calls>>
  /\ UNCHANGED <<storeKeys, authVars>>

\* const cached = await this.cacheManager.get(cacheKey); if (cached) return cached
FindOneGet(t) ==
  /\ thr[t].pc = "f_get"
  /\ IF thr[t].id \in DOMAIN cacheOrder
     THEN Step(t, FindOneReturns(thr[t], cacheOrder[thr[t].id]))
     ELSE /\ thr' = [thr EXCEPT ![t] = [@ EXCEPT !.pc = "f_read"]]
          /\ UNCHANGED jobs
  /\ UNCHANGED <<store, cacheOrder, cacheList, kafka, rabbit, now, calls, cacheTtl>>
  /\ UNCHANGED <<storeKeys, authVars>>

\* faulty variant: a missing order is not reported but cached and returned as null
FindOneReadCachesMissing(t) ==
  /\ thr[t].pc = "f_read"
  /\ thr' = [thr EXCEPT ![t] = [@ EXCEPT !.pc = "f_set",
                                       !.order = IF thr[t].id \in DOMAIN store
                                                 THEN store[thr[t].id] ELSE NoOrd]]
  /\ UNCHANGED <<store, cacheOrder, cacheList, cacheTtl, kafka, rabbit, jobs, now, calls>>
  /\ UNCHANGED <<storeKeys, authVars>>

\* const order = await this.orderRepository.findOne(...); if (!order) throw NotFound
FindOneRead(t) ==
  /\ thr[t].pc = "f_read"
  /\ IF thr[t].id \in DOMAIN store
     THEN /\ thr' = [thr EXCEPT ![t] = [@ EXCEPT !.pc = "f_set",
                                              !.order = store[thr[t].id]]]
          /\ UNCHANGED jobs
     ELSE Step(t, Throws(thr[t], "NotFound"))
  /\ UNCHANGED <<store, cacheOrder, cacheList, kafka, rabbit, now, calls, cacheTtl>>
  /\ UNCHANGED <<storeKeys, authVars>>

\* faulty variant: set does not overwrite an entry that is there but drops it
FindOneSetDropsExisting(t) ==
  /\ thr[t].pc = "f_set"
  /\ cacheOrder' = IF thr[t].id \in DOMAIN cacheOrder
                    THEN Del(cacheOrder, {thr[t].id})
                    ELSE Put(cacheOrder, thr[t].id, thr[t].order)
  /\ cacheTtl' = IF thr[t].id \in DOMAIN cacheOrder
                  THEN Del(cacheTtl, {OrderKey(thr[t].id)})
                  ELSE Put(cacheTtl, OrderKey(thr[t].id), CACHE_TTL)
  /\ Step(t, FindOneReturns(thr[t], thr[t].order))
  /\ UNCHANGED <<store, cacheList, kafka, rabbit, now, calls>>
  /\ UNCHANGED <<storeKeys, authVars>>

\* await this.cacheManager.set(cacheKey, order, 300); return order
FindOneSet(t) ==
  /\ thr[t].pc = "f_set"
  /\ cacheOrder' = Put(cacheOrder, thr[t].id, thr[t].order)
  /\ cacheTtl' = Put(cacheTtl, OrderKey(thr[t].id), CACHE_TTL)
  /\ Step(t, FindOneReturns(thr[t], thr[t].order))
  /\ UNCHANGED <<store, cacheList, kafka, rabbit, now, calls>>
  /\ UNCHANGED <<storeKeys, authVars>>


\* ----------------------------------------------- updateStatus / cancelOrder
CallUpdateStatus(t) ==
  /\ t \in Clients /\ thr[t].pc = "idle" /\ calls < MaxCalls
  /\ \E id \in 1..MaxOrders, s \in OrderStatus : \E r \in ReasonsFor(s) :
       thr' = [thr EXCEPT ![t] = [IdleThread EXCEPT !.op = "updateStatus",
                                     !.pc = "f_get", !.id = id, !.target = s,
                                     !.reason = r]]
  /\ calls' = calls + 1
  /\ UNCHANGED <<store, cacheOrder, cacheList, kafka, rabbit, jobs, now, cacheTtl>>
  /\ UNCHANGED <<storeKeys, authVars>>

\* faulty variant: cancelOrder loads the order from the repository itself
\* instead of going through updateStatus and its findOne
CallCancelOrderSkipsFindOne(t) ==
  /\ t \in Clients /\ thr[t].pc = "idle" /\ calls < MaxCalls
  /\ \E id \in DOMAIN store, r \in Reasons :
       thr' = [thr EXCEPT ![t] = [IdleThread EXCEPT !.op = "cancelOrder",
                                     !.pc = "u_save", !.id = id,
                                     !.target = CANCELLED, !.reason = r,
                                     !.order = store[id]]]
  /\ calls' = calls + 1
  /\ UNCHANGED <<store, cacheOrder, cacheList, cacheTtl, kafka, rabbit, jobs, now>>
  /\ UNCHANGED <<storeKeys, authVars>>

\* return this.updateStatus(id, {status: CANCELLED, cancelReason: reason})
CallCancelOrder(t) ==
  /\ t \in Clients /\ thr[t].pc = "idle" /\ calls < MaxCalls
  /\ \E id \in 1..MaxOrders, r \in Reasons :
       thr' = [thr EXCEPT ![t] = [IdleThread EXCEPT !.op = "cancelOrder",
                                     !.pc = "f_get", !.id = id,
                                     !.target = CANCELLED, !.reason = r]]
  /\ calls' = calls + 1
  /\ UNCHANGED <<store, cacheOrder, cacheList, kafka, rabbit, jobs, now, cacheTtl>>
  /\ UNCHANGED <<storeKeys, authVars>>

\* faulty variant: cancelReason is stored as given, without the default ''
applyStatusNoDefault(order, status, reason, date) ==
  IF status = CANCELLED
  THEN [order EXCEPT !.status = status, !.cancelledAt = date, !.cancelReason = reason]
  ELSE [order EXCEPT !.status = status]

\* faulty variant: a cancellation also refunds, setting totalAmount to 0
applyStatusRefunds(order, status, reason, date) ==
  IF status = CANCELLED
  THEN [order EXCEPT !.status = status, !.cancelledAt = date, !.totalAmount = 0,
                     !.cancelReason = IF reason = NULL THEN "" ELSE reason]
  ELSE [order EXCEPT !.status = status]

\* order.status = dto.status; if CANCELLED: cancelledAt = new Date(),
\* cancelReason = dto.cancelReason ?? ''
applyStatus(order, status, reason, date) ==
  IF status = CANCELLED
  THEN [order EXCEPT !.status = status, !.cancelledAt = date,
                     !.cancelReason = IF reason = NULL THEN "" ELSE reason]
  ELSE [order EXCEPT !.status = status]

\* faulty variant: a rejected transition still deletes the order's cache entry
UpdateRejectsAfterDel(t) ==
  /\ thr[t].pc = "u_save"
  /\ ~validateStatusTransition(thr[t].order.status, thr[t].target)
  /\ cacheOrder' = Del(cacheOrder, {thr[t].id})
  /\ cacheTtl' = Del(cacheTtl, {OrderKey(thr[t].id)})
  /\ Step(t, Throws(thr[t], "BadRequest"))
  /\ UNCHANGED <<store, cacheList, kafka, rabbit, now, calls>>
  /\ UNCHANGED <<storeKeys, authVars>>

\* validateStatusTransition(order.status, dto.status) throws
UpdateRejects(t) ==
  /\ thr[t].pc = "u_save"
  /\ ~validateStatusTransition(thr[t].order.status, thr[t].target)
  /\ Step(t, Throws(thr[t], "BadRequest"))
  /\ UNCHANGED <<store, cacheOrder, cacheList, kafka, rabbit, now, calls, cacheTtl>>
  /\ UNCHANGED <<storeKeys, authVars>>

\* faulty variant: the order is saved but no status-changed event is published
UpdateSaveSkipsPublish(t) ==
  /\ thr[t].pc = "u_save"
  /\ validateStatusTransition(thr[t].order.status, thr[t].target)
  /\ LET o == applyStatus(thr[t].order, thr[t].target, thr[t].reason, now + 1) IN
       /\ store' = [store EXCEPT ![o.id] = o]
       /\ thr' = [thr EXCEPT ![t] = [@ EXCEPT !.pc = "u_del", !.order = o]]
  /\ now' = IF thr[t].target = CANCELLED THEN now + 1 ELSE now
  /\ UNCHANGED <<cacheOrder, cacheList, cacheTtl, kafka, rabbit, jobs, calls>>
  /\ UNCHANGED <<storeKeys, authVars>>

\* faulty variant: a cancellation removes the row instead of saving it
UpdateSaveDeletesCancelled(t) ==
  /\ thr[t].pc = "u_save"
  /\ validateStatusTransition(thr[t].order.status, thr[t].target)
  /\ LET o == applyStatus(thr[t].order, thr[t].target, thr[t].reason, now + 1) IN
       /\ store' = IF thr[t].target = CANCELLED
                   THEN SubSeq(store, 1, o.id - 1)
                   ELSE [store EXCEPT ![o.id] = o]
       /\ thr' = [thr EXCEPT ![t] = [@ EXCEPT !.pc = "u_pubA", !.order = o]]
  /\ now' = IF thr[t].target = CANCELLED THEN now + 1 ELSE now
  /\ UNCHANGED <<cacheOrder, cacheList, cacheTtl, kafka, rabbit, jobs, calls>>
  /\ UNCHANGED <<storeKeys, authVars>>

\* faulty variant: the save checks a version and rejects a writer whose copy
\* of the order is no longer the stored one
UpdateSaveChecksVersion(t) ==
  /\ thr[t].pc = "u_save"
  /\ validateStatusTransition(thr[t].order.status, thr[t].target)
  /\ IF store[thr[t].id].status = thr[t].order.status
     THEN LET o == applyStatus(thr[t].order, thr[t].target, thr[t].reason, now + 1) IN
            /\ store' = [store EXCEPT ![o.id] = o]
            /\ thr' = [thr EXCEPT ![t] = [@ EXCEPT !.pc = "u_pubA", !.order = o]]
            /\ now' = IF thr[t].target = CANCELLED THEN now + 1 ELSE now
            /\ UNCHANGED jobs
     ELSE /\ Step(t, Throws(thr[t], "DbError"))
          /\ UNCHANGED <<store, now>>
  /\ UNCHANGED <<cacheOrder, cacheList, cacheTtl, kafka, rabbit, calls>>
  /\ UNCHANGED <<storeKeys, authVars>>

\* faulty variant: the call goes on to publish before the row is written
UpdateSaveNotWritten(t) ==
  /\ thr[t].pc = "u_save"
  /\ validateStatusTransition(thr[t].order.status, thr[t].target)
  /\ LET o == applyStatus(thr[t].order, thr[t].target, thr[t].reason, now + 1) IN
       thr' = [thr EXCEPT ![t] = [@ EXCEPT !.pc = "u_pubA", !.order = o]]
  /\ now' = IF thr[t].target = CANCELLED THEN now + 1 ELSE now
  /\ UNCHANGED <<store, cacheOrder, cacheList, cacheTtl, kafka, rabbit, jobs, calls>>
  /\ UNCHANGED <<storeKeys, authVars>>

\* validated; const updatedOrder = await this.orderRepository.save(order)
UpdateSave(t) ==
  /\ thr[t].pc = "u_save"
  /\ validateStatusTransition(thr[t].order.status, thr[t].target)
  /\ LET o == applyStatus(thr[t].order, thr[t].target, thr[t].reason, now + 1) IN
       /\ store' = [store EXCEPT ![o.id] = o]
       /\ thr' = [thr EXCEPT ![t] = [@ EXCEPT !.pc = "u_pubA", !.order = o]]
  /\ now' = IF thr[t].target = CANCELLED THEN now + 1 ELSE now
  /\ UNCHANGED <<cacheOrder, cacheList, kafka, rabbit, jobs, calls, cacheTtl>>
  /\ UNCHANGED <<storeKeys, authVars>>


statusChangedEvent(order) ==
  [eventType |-> "ORDER_STATUS_CHANGED", orderId |-> order.id,
   userId |-> order.userId, newStatus |-> order.status,
   totalAmount |-> order.totalAmount]

notification(order) ==
  [type |-> "STATUS_UPDATE", orderId |-> order.id, userId |-> order.userId,
   status |-> order.status]

\* faulty variant: the notification is sent for every new status
UpdatePubANotifiesAlways(t) ==
  /\ thr[t].pc = "u_pubA"
  /\ kafka' = Append(kafka, statusChangedEvent(thr[t].order))
  /\ thr' = [thr EXCEPT ![t] = [@ EXCEPT !.pc = "u_pubB"]]
  /\ UNCHANGED <<store, cacheOrder, cacheList, cacheTtl, rabbit, jobs, now, calls>>
  /\ UNCHANGED <<storeKeys, authVars>>

\* this.kafkaClient.emit('order.status.changed', event)
UpdatePubA(t) ==
  /\ thr[t].pc = "u_pubA"
  /\ kafka' = Append(kafka, statusChangedEvent(thr[t].order))
  /\ thr' = [thr EXCEPT ![t] =
               [@ EXCEPT !.pc = IF thr[t].order.status \in {SHIPPED, DELIVERED}
                                    THEN "u_pubB" ELSE "u_del"]]
  /\ UNCHANGED <<store, cacheOrder, cacheList, rabbit, jobs, now, calls, cacheTtl>>
  /\ UNCHANGED <<storeKeys, authVars>>


\* this.kafkaClient.emit('order.status.changed', event) with Kafka unavailable
UpdatePubALost(t) ==
  /\ thr[t].pc = "u_pubA"
  /\ kafka' = Append(kafka, Lost(statusChangedEvent(thr[t].order)))
  /\ thr' = [thr EXCEPT ![t] =
               [@ EXCEPT !.pc = IF thr[t].order.status \in {SHIPPED, DELIVERED}
                                    THEN "u_pubB" ELSE "u_del"]]
  /\ UNCHANGED <<store, cacheOrder, cacheList, rabbit, jobs, now, calls, cacheTtl>>
  /\ UNCHANGED <<storeKeys, authVars>>

\* await this.rabbitMqClient.emit('order_notification', {...}).toPromise()
UpdatePubB(t) ==
  /\ thr[t].pc = "u_pubB"
  /\ rabbit' = Append(rabbit, notification(thr[t].order))
  /\ thr' = [thr EXCEPT ![t] = [@ EXCEPT !.pc = "u_del"]]
  /\ UNCHANGED <<store, cacheOrder, cacheList, kafka, jobs, now, calls, cacheTtl>>
  /\ UNCHANGED <<storeKeys, authVars>>

UpdatePubBFails(t) ==
  /\ thr[t].pc = "u_pubB"
  /\ Step(t, Throws(thr[t], "PublishFailure"))
  /\ UNCHANGED <<store, cacheOrder, cacheList, kafka, rabbit, now, calls, cacheTtl>>
  /\ UNCHANGED <<storeKeys, authVars>>

\* await this.cacheManager.del(`order:${id}`)
UpdateDel(t) ==
  /\ thr[t].pc = "u_del"
  /\ cacheOrder' = Del(cacheOrder, {thr[t].id})
  /\ cacheTtl' = Del(cacheTtl, {OrderKey(thr[t].id)})
  /\ thr' = [thr EXCEPT ![t] = [@ EXCEPT !.pc = "inv_keys"]]
  /\ UNCHANGED <<store, cacheList, kafka, rabbit, jobs, now, calls>>
  /\ UNCHANGED <<storeKeys, authVars>>

\* --------------------------------------------------- publishOrderCancelled
\* the event built by publishOrderCancelled
cancelledEvent(order) ==
  [eventType |-> "ORDER_CANCELLED", orderId |-> order.id, userId |-> order.userId,
   cancelReason |-> order.cancelReason, totalAmount |-> order.totalAmount]

\* a caller hands a stored order to publishOrderCancelled
CallPublishOrderCancelled(t) ==
  /\ t \in Clients /\ thr[t].pc = "idle" /\ calls < MaxCalls
  /\ \E id \in DOMAIN store :
       thr' = [thr EXCEPT ![t] = [IdleThread EXCEPT !.op = "publishOrderCancelled",
                                     !.pc = "x_pubA", !.id = id,
                                     !.order = store[id]]]
  /\ calls' = calls + 1
  /\ UNCHANGED <<store, cacheOrder, cacheList, kafka, rabbit, jobs, now, cacheTtl>>
  /\ UNCHANGED <<storeKeys, authVars>>

\* this.kafkaClient.emit('order.cancelled', event)
CancelPubA(t) ==
  /\ thr[t].pc = "x_pubA"
  /\ kafka' = Append(kafka, cancelledEvent(thr[t].order))
  /\ thr' = [thr EXCEPT ![t] = [@ EXCEPT !.pc = "x_pubB"]]
  /\ UNCHANGED <<store, cacheOrder, cacheList, rabbit, jobs, now, calls, cacheTtl>>
  /\ UNCHANGED <<storeKeys, authVars>>

\* this.kafkaClient.emit('order.cancelled', event) with Kafka unavailable
CancelPubALost(t) ==
  /\ thr[t].pc = "x_pubA"
  /\ kafka' = Append(kafka, Lost(cancelledEvent(thr[t].order)))
  /\ thr' = [thr EXCEPT ![t] = [@ EXCEPT !.pc = "x_pubB"]]
  /\ UNCHANGED <<store, cacheOrder, cacheList, rabbit, jobs, now, calls, cacheTtl>>
  /\ UNCHANGED <<storeKeys, authVars>>

\* await this.rabbitMqClient.emit('order_cancelled', event).toPromise()
CancelPubB(t) ==
  /\ thr[t].pc = "x_pubB"
  /\ rabbit' = Append(rabbit, cancelledEvent(thr[t].order))
  /\ thr' = [thr EXCEPT ![t] = Done(@, "ok", NoOrd)]
  /\ UNCHANGED <<store, cacheOrder, cacheList, kafka, jobs, now, calls, cacheTtl>>
  /\ UNCHANGED <<storeKeys, authVars>>

\* faulty variant: the catch of publishOrderCancelled rethrows, as the other two do
CancelPubBFailsRethrows(t) ==
  /\ thr[t].pc = "x_pubB"
  /\ thr' = [thr EXCEPT ![t] = Done(@, "PublishFailure", NoOrd)]
  /\ UNCHANGED <<store, cacheOrder, cacheList, kafka, rabbit, jobs, now, calls, cacheTtl>>
  /\ UNCHANGED <<storeKeys, authVars>>

\* the emit rejects: catch (error) { this.logger.error(...) } and return
CancelPubBFails(t) ==
  /\ thr[t].pc = "x_pubB"
  /\ thr' = [thr EXCEPT ![t] = Done(@, "ok", NoOrd)]
  /\ UNCHANGED <<store, cacheOrder, cacheList, kafka, rabbit, jobs, now, calls, cacheTtl>>
  /\ UNCHANGED <<storeKeys, authVars>>

\* ------------------------------------------------------------- findByUser
\* ids of the user's orders, newest first (createdAt grows with the id)
RECURSIVE userOrdersDesc(_, _)
userOrdersDesc(userId, n) ==
  IF n = 0 THEN <<>>
  ELSE IF store[n].userId = userId
       THEN <<store[n]>> \o userOrdersDesc(userId, n - 1)
       ELSE userOrdersDesc(userId, n - 1)

\* findAndCount({where: {userId}, order: {createdAt: DESC}, skip: (page-1)*limit, take: limit})
findAndCount(userId, page, limit) ==
  LET all == userOrdersDesc(userId, Len(store))
      skip == (page - 1) * limit
      last == IF skip + limit < Len(all) THEN skip + limit ELSE Len(all)
  IN [orders |-> SubSeq(all, skip + 1, last), total |-> Len(all)]

CallFindByUser(t) ==
  /\ t \in Clients /\ thr[t].pc = "idle" /\ calls < MaxCalls
  /\ \E u \in Users, page \in Pages, limit \in Limits :
       thr' = [thr EXCEPT ![t] = [IdleThread EXCEPT !.op = "findByUser",
                                     !.pc = "l_get", !.user = u, !.page = page,
                                     !.limit = limit]]
  /\ calls' = calls + 1
  /\ UNCHANGED <<store, cacheOrder, cacheList, kafka, rabbit, jobs, now, cacheTtl>>
  /\ UNCHANGED <<storeKeys, authVars>>

ListKey(th) == <<th.user, th.page, th.limit>>

FindByUserGet(t) ==
  /\ thr[t].pc = "l_get"
  /\ thr' = [thr EXCEPT ![t] =
               IF ListKey(thr[t]) \in DOMAIN cacheList
               THEN [Done(@, "ok", NoOrd) EXCEPT !.list = cacheList[ListKey(thr[t])]]
               ELSE [@ EXCEPT !.pc = "l_read"]]
  /\ UNCHANGED <<store, cacheOrder, cacheList, kafka, rabbit, jobs, now, calls, cacheTtl>>
  /\ UNCHANGED <<storeKeys, authVars>>

FindByUserRead(t) ==
  /\ thr[t].pc = "l_read"
  /\ thr' = [thr EXCEPT ![t] =
               [@ EXCEPT !.pc = "l_set",
                             !.list = findAndCount(thr[t].user, thr[t].page, thr[t].limit)]]
  /\ UNCHANGED <<store, cacheOrder, cacheList, kafka, rabbit, jobs, now, calls, cacheTtl>>
  /\ UNCHANGED <<storeKeys, authVars>>

FindByUserSet(t) ==
  /\ thr[t].pc = "l_set"
  /\ cacheList' = Put(cacheList, ListKey(thr[t]), thr[t].list)
  /\ cacheTtl' = Put(cacheTtl, UserOrdersKey(ListKey(thr[t])), CACHE_TTL)
  /\ thr' = [thr EXCEPT ![t] = Done(@, "ok", NoOrd)]
  /\ UNCHANGED <<store, cacheOrder, kafka, rabbit, jobs, now, calls>>
  /\ UNCHANGED <<storeKeys, authVars>>

\* ------------------------------------------------ cache entries expire (TTL)
ExpireOrderEntry ==
  /\ \E id \in DOMAIN cacheOrder :
       /\ cacheOrder' = Del(cacheOrder, {id})
       /\ cacheTtl' = Del(cacheTtl, {OrderKey(id)})
  /\ UNCHANGED <<store, cacheList, kafka, rabbit, jobs, thr, now, calls>>
  /\ UNCHANGED <<storeKeys, authVars>>

ExpireListEntry ==
  /\ \E k \in DOMAIN cacheList :
       /\ cacheList' = Del(cacheList, {k})
       /\ cacheTtl' = Del(cacheTtl, {UserOrdersKey(k)})
  /\ UNCHANGED <<store, cacheOrder, kafka, rabbit, jobs, thr, now, calls>>
  /\ UNCHANGED <<storeKeys, authVars>>

\* ----------------------------------------------------- process-order job
\* private async checkInventory(orderId): returns true
checkInventory(orderId) == TRUE

\* faulty variant: a retry whose earlier attempt recorded progress 80 or more
\* resumes at the confirmation, skipping the steps done before
JobStartResumes(w) ==
  /\ w \in WorkerPool /\ thr[w].pc = "idle"
  /\ \E j \in DOMAIN jobs :
       /\ jobs[j].state \in {"waiting", "delayed"}
       /\ jobs' = [jobs EXCEPT ![j].state = "active",
                               ![j].progress = IF @ >= 80 THEN @ ELSE 20]
       /\ thr' = [thr EXCEPT ![w] =
                    [IdleThread EXCEPT !.op = "job", !.job = j,
                                       !.id = jobs[j].orderId,
                                       !.phase = "validate",
                                       !.pc = IF jobs[j].progress >= 80
                                              THEN "j_confirm" ELSE "f_get"]]
  /\ UNCHANGED <<store, cacheOrder, cacheList, kafka, rabbit, now, calls, cacheTtl>>
  /\ UNCHANGED <<storeKeys, authVars>>

\* a worker takes a job: job.progress(20); validateOrder -> findOne
JobStart(w) ==
  /\ w \in WorkerPool /\ thr[w].pc = "idle"
  /\ \E j \in DOMAIN jobs :
       /\ jobs[j].name = "process-order"
       /\ jobs[j].state \in {"waiting", "delayed"}
       /\ jobs' = [jobs EXCEPT ![j].state = "active", ![j].progress = 20]
       /\ thr' = [thr EXCEPT ![w] = [IdleThread EXCEPT !.op = "job", !.pc = "f_get",
                                       !.phase = "validate", !.job = j,
                                       !.id = jobs[j].orderId]]
  /\ UNCHANGED <<store, cacheOrder, cacheList, kafka, rabbit, now, calls, cacheTtl>>
  /\ UNCHANGED <<storeKeys, authVars>>

\* faulty variant: once inventory is available the order is confirmed at once,
\* without reserving inventory and initiating the payment
JobInventoryThenConfirm(w) ==
  /\ thr[w].pc = "j_inventory"
  /\ jobs' = [jobs EXCEPT ![thr[w].job].progress = 40]
  /\ thr' = [thr EXCEPT ![w] = IF checkInventory(thr[w].id)
                               THEN [@ EXCEPT !.pc = "j_confirm"]
                               ELSE EnterCatch(@, "Inventory")]
  /\ UNCHANGED <<store, cacheOrder, cacheList, cacheTtl, kafka, rabbit, now, calls>>
  /\ UNCHANGED <<storeKeys, authVars>>

\* job.progress(40); if (!(await checkInventory())) throw Error('Insufficient inventory')
JobInventory(w) ==
  /\ thr[w].pc = "j_inventory"
  /\ jobs' = [jobs EXCEPT ![thr[w].job].progress = 40]
  /\ thr' = [thr EXCEPT ![w] = IF checkInventory(thr[w].id)
                               THEN [@ EXCEPT !.pc = "j_reserve"]
                               ELSE EnterCatch(@, "Inventory")]
  /\ UNCHANGED <<store, cacheOrder, cacheList, kafka, rabbit, now, calls, cacheTtl>>
  /\ UNCHANGED <<storeKeys, authVars>>

\* job.progress(40); the inventory service that checkInventory stands for
\* answers false: throw new Error('Insufficient inventory')
JobInventoryUnavailable(w) ==
  /\ thr[w].pc = "j_inventory"
  /\ jobs' = [jobs EXCEPT ![thr[w].job].progress = 40]
  /\ thr' = [thr EXCEPT ![w] = EnterCatch(@, "Inventory")]
  /\ UNCHANGED <<store, cacheOrder, cacheList, cacheTtl, kafka, rabbit, now, calls>>
  /\ UNCHANGED <<storeKeys, authVars>>

\* job.progress(60); await this.reserveInventory(orderId)
JobReserve(w) ==
  /\ thr[w].pc = "j_reserve"
  /\ jobs' = [jobs EXCEPT ![thr[w].job].progress = 60]
  /\ thr' = [thr EXCEPT ![w] = [@ EXCEPT !.pc = "j_payment"]]
  /\ UNCHANGED <<store, cacheOrder, cacheList, kafka, rabbit, now, calls, cacheTtl>>
  /\ UNCHANGED <<storeKeys, authVars>>

\* job.progress(80); await this.initiatePayment(orderId)
JobPayment(w) ==
  /\ thr[w].pc = "j_payment"
  /\ jobs' = [jobs EXCEPT ![thr[w].job].progress = 80]
  /\ thr' = [thr EXCEPT ![w] = [@ EXCEPT !.pc = "j_confirm"]]
  /\ UNCHANGED <<store, cacheOrder, cacheList, kafka, rabbit, now, calls, cacheTtl>>
  /\ UNCHANGED <<storeKeys, authVars>>

\* job.progress(100); await this.orderService.updateStatus(orderId, {status: CONFIRMED})
JobConfirm(w) ==
  /\ thr[w].pc = "j_confirm"
  /\ jobs' = [jobs EXCEPT ![thr[w].job].progress = 100]
  /\ thr' = [thr EXCEPT ![w] = [@ EXCEPT !.pc = "f_get", !.phase = "confirm",
                                         !.target = CONFIRMED, !.reason = NULL]]
  /\ UNCHANGED <<store, cacheOrder, cacheList, kafka, rabbit, now, calls, cacheTtl>>
  /\ UNCHANGED <<storeKeys, authVars>>

\* ------------------------------------------------ send-notification job
\* a worker takes a send-notification job: handleNotification starts
NotifyStart(w) ==
  /\ w \in WorkerPool /\ thr[w].pc = "idle"
  /\ \E j \in DOMAIN jobs :
       /\ jobs[j].name = "send-notification"
       /\ jobs[j].state \in {"waiting", "delayed"}
       /\ jobs' = [jobs EXCEPT ![j].state = "active"]
       /\ thr' = [thr EXCEPT ![w] = [IdleThread EXCEPT !.op = "job", !.pc = "n_email",
                                       !.phase = "notify", !.job = j,
                                       !.id = jobs[j].orderId]]
  /\ UNCHANGED <<store, cacheOrder, cacheList, cacheTtl, kafka, rabbit, now, calls>>
  /\ UNCHANGED <<storeKeys, authVars>>

\* await this.sendEmail(userId, type, orderId)
NotifyEmail(w) ==
  /\ thr[w].pc = "n_email"
  /\ thr' = [thr EXCEPT ![w] = [@ EXCEPT !.pc = "n_sms"]]
  /\ UNCHANGED <<store, cacheOrder, cacheList, cacheTtl, kafka, rabbit, jobs, now, calls>>
  /\ UNCHANGED <<storeKeys, authVars>>

\* faulty variant: a notification whose SMS went out marks the order DELIVERED
NotifySMSDelivers(w) ==
  /\ thr[w].pc = "n_sms"
  /\ store' = IF thr[w].id \in DOMAIN store
              THEN [store EXCEPT ![thr[w].id].status = DELIVERED] ELSE store
  /\ Step(w, JobSucceed(thr[w]))
  /\ UNCHANGED <<cacheOrder, cacheList, cacheTtl, kafka, rabbit, now, calls>>
  /\ UNCHANGED <<storeKeys, authVars>>

\* await this.sendSMS(userId, type, orderId); return {success: true}
NotifySMS(w) ==
  /\ thr[w].pc = "n_sms"
  /\ Step(w, JobSucceed(thr[w]))
  /\ UNCHANGED <<store, cacheOrder, cacheList, cacheTtl, kafka, rabbit, now, calls>>
  /\ UNCHANGED <<storeKeys, authVars>>

\* the mail or SMS service that sendEmail / sendSMS stand for rejects:
\* catch (error) { log; throw error }
NotifyFails(w) ==
  /\ thr[w].pc \in {"n_email", "n_sms"}
  /\ Step(w, JobFail(thr[w], "SendFailure"))
  /\ UNCHANGED <<store, cacheOrder, cacheList, cacheTtl, kafka, rabbit, now, calls>>
  /\ UNCHANGED <<storeKeys, authVars>>

\* ------------------------------------------------- generate-invoice job
\* a worker takes a generate-invoice job: handleInvoiceGeneration calls findOne
InvoiceStart(w) ==
  /\ w \in WorkerPool /\ thr[w].pc = "idle"
  /\ \E j \in DOMAIN jobs :
       /\ jobs[j].name = "generate-invoice"
       /\ jobs[j].state \in {"waiting", "delayed"}
       /\ jobs' = [jobs EXCEPT ![j].state = "active"]
       /\ thr' = [thr EXCEPT ![w] = [IdleThread EXCEPT !.op = "job", !.pc = "f_get",
                                       !.phase = "invoice", !.job = j,
                                       !.id = jobs[j].orderId]]
  /\ UNCHANGED <<store, cacheOrder, cacheList, cacheTtl, kafka, rabbit, now, calls>>
  /\ UNCHANGED <<storeKeys, authVars>>

\* const invoice = await this.generateInvoicePDF(order); return {success, invoiceUrl}
InvoicePdf(w) ==
  /\ thr[w].pc = "i_pdf"
  /\ Step(w, JobSucceed(thr[w]))
  /\ UNCHANGED <<store, cacheOrder, cacheList, cacheTtl, kafka, rabbit, now, calls>>
  /\ UNCHANGED <<storeKeys, authVars>>

\* the caller has taken the result: the thread is free for the next request
Return(t) ==
  /\ thr[t].pc = "done"
  /\ thr' = [thr EXCEPT ![t] = IdleThread]
  /\ UNCHANGED <<store, cacheOrder, cacheList, kafka, rabbit, jobs, now, calls, cacheTtl>>
  /\ UNCHANGED <<storeKeys, authVars>>

\* ------------------------------------------------------------ next-state
Next ==
  \/ \E t \in Threads :
       \/ CallCreateOrder(t, FewDtos)
       \/ CreateSave(t) \/ CreateSaveFails(t)
       \/ CreatePubA(t)
       \/ CreatePubB(t) \/ CreatePubBFails(t)
       \/ CreateEnqueue(t) \/ CreateEnqueueFails(t)
       \/ InvKeys(t) \/ InvDel(t)
       \/ CallFindOne(t) \/ FindOneGet(t) \/ FindOneRead(t) \/ FindOneSet(t)
       \/ CallUpdateStatus(t) \/ CallCancelOrder(t)
       \/ UpdateRejects(t) \/ UpdateSave(t)
       \/ UpdatePubA(t)
       \/ UpdatePubB(t) \/ UpdatePubBFails(t)
       \/ UpdateDel(t)
       \/ CallFindByUser(t) \/ FindByUserGet(t) \/ FindByUserRead(t) \/ FindByUserSet(t)
       \/ JobStart(t) \/ JobInventory(t) \/ JobReserve(t) \/ JobPayment(t) \/ JobConfirm(t)
       \/ Return(t)
  \/ ExpireOrderEntry
  \/ ExpireListEntry

Spec == Init /\ [][Next]_vars


\* ------------------------------------------------ createOrder on its own
\* One createOrder request at a time against an empty orders table, with the
\* item list drawn from every list of at most MaxItems items.
CreateOnEmptyStore(t) ==
  /\ store = <<>>
  /\ CallCreateOrder(t, AllDtos)

NextCreate ==
  \E t \in Clients :
    \/ CreateOnEmptyStore(t)
    \/ CreateSave(t) \/ CreateSaveFails(t)
    \/ CreatePubA(t)
    \/ CreatePubB(t) \/ CreatePubBFails(t)
    \/ CreateEnqueue(t) \/ CreateEnqueueFails(t)
    \/ InvKeys(t)
    \/ Return(t)

SpecCreate == Init /\ [][NextCreate]_vars

\* ------------------------------------------- status changes on their own
\* An order created earlier, in any status of its lifecycle, and requests that
\* change its status one after the other.
existingOrder(status) ==
  [id |-> 1, userId |-> "u1", totalAmount |-> 1, status |-> status,
   shippingAddress |-> "addr1",
   items |-> mapItems(<<Item(1, 1)>>),
   cancelledAt |-> IF status = CANCELLED THEN 1 ELSE NoDate,
   cancelReason |-> IF status = CANCELLED THEN "customer request" ELSE NULL]

InitExisting ==
  /\ store \in {<<existingOrder(s)>> : s \in OrderStatus}
  /\ cacheOrder = <<>>
  /\ cacheList = <<>>
  /\ cacheTtl = <<>>
  /\ kafka = <<>>
  /\ rabbit = <<>>
  /\ jobs = <<>>
  /\ thr = [t \in Threads |-> IdleThread]
  /\ now = 1
  /\ calls = 0
  /\ storeKeys = TRUE
  /\ InitAuth

NextTransitions ==
  \E t \in Clients :
    \/ CallUpdateStatus(t) \/ CallCancelOrder(t)
    \/ FindOneGet(t) \/ FindOneRead(t) \/ FindOneSet(t)
    \/ UpdateRejects(t) \/ UpdateSave(t)
    \/ UpdatePubA(t)
    \/ UpdatePubB(t) \/ UpdatePubBFails(t)
    \/ UpdateDel(t)
    \/ InvKeys(t)
    \/ Return(t)

SpecTransitions == InitExisting /\ [][NextTransitions]_vars


\* --------------------------------------------- the publisher and its callers
\* createOrder, updateStatus / cancelOrder and publishOrderCancelled called one
\* after the other, with the broker accepting or rejecting each awaited emit.
\* The orders table is empty or holds one order created earlier.
InitEmptyOrExisting ==
  /\ store \in {<<>>} \cup {<<existingOrder(s)>> : s \in OrderStatus}
  /\ cacheOrder = <<>>
  /\ cacheList = <<>>
  /\ cacheTtl = <<>>
  /\ kafka = <<>>
  /\ rabbit = <<>>
  /\ jobs = <<>>
  /\ thr = [t \in Threads |-> IdleThread]
  /\ now = 1
  /\ calls = 0
  /\ storeKeys = TRUE
  /\ InitAuth

NextPublisher ==
  \E t \in Clients :
    \/ CallCreateOrder(t, FewDtos)
    \/ CreateSave(t) \/ CreateSaveFails(t)
    \/ CreatePubA(t) \/ CreatePubALost(t)
    \/ CreatePubB(t) \/ CreatePubBFails(t)
    \/ CreateEnqueue(t) \/ CreateEnqueueFails(t)
    \/ CallUpdateStatus(t) \/ CallCancelOrder(t)
    \/ FindOneGet(t) \/ FindOneRead(t) \/ FindOneSet(t)
    \/ UpdateRejects(t) \/ UpdateSave(t)
    \/ UpdatePubA(t) \/ UpdatePubALost(t)
    \/ UpdatePubB(t) \/ UpdatePubBFails(t)
    \/ UpdateDel(t)
    \/ InvKeys(t)
    \/ CallPublishOrderCancelled(t)
    \/ CancelPubA(t) \/ CancelPubALost(t)
    \/ CancelPubB(t) \/ CancelPubBFails(t)
    \/ Return(t)

SpecPublisher == InitEmptyOrExisting /\ [][NextPublisher]_vars


\* ------------------------------------------------------ reads on their own
\* findOne and findByUser requests one after the other against an orders table
\* that is empty or holds one order; no entry expires meanwhile.
NextReads ==
  \E t \in Clients :
    \/ CallFindOne(t) \/ FindOneGet(t) \/ FindOneRead(t) \/ FindOneSet(t)
    \/ CallFindByUser(t) \/ FindByUserGet(t) \/ FindByUserRead(t) \/ FindByUserSet(t)
    \/ Return(t)

SpecReads == InitEmptyOrExisting /\ [][NextReads]_vars


\* ------------------------------------------------ fulfillment on its own
\* The state createOrder leaves behind: one PENDING order (with or without
\* items), its created event on both brokers and its process-order job waiting.
createdOrder(dto) == [createEntity(dto) EXCEPT !.id = 1]

InitCreated ==
  /\ \E dto \in FewDtos :
       /\ store = <<createdOrder(dto)>>
       /\ kafka = <<createdEvent(createdOrder(dto))>>
       /\ rabbit = <<createdEvent(createdOrder(dto))>>
       /\ jobs = <<[name |-> "process-order", orderId |-> 1, userId |-> dto.userId,
                    attemptsMade |-> 0, state |-> "waiting", progress |-> 0]>>
  /\ cacheOrder = <<>>
  /\ cacheList = <<>>
  /\ cacheTtl = <<>>
  /\ thr = [t \in Threads |-> IdleThread]
  /\ now = 0
  /\ calls = 0
  /\ storeKeys = TRUE
  /\ InitAuth

\* the steps of a worker running process-order attempts; the inventory service
\* answers available or unavailable
WorkerStep ==
  \E w \in Workers :
    \/ JobStart(w)
    \/ FindOneGet(w) \/ FindOneRead(w) \/ FindOneSet(w)
    \/ JobInventory(w) \/ JobInventoryUnavailable(w)
    \/ JobReserve(w) \/ JobPayment(w) \/ JobConfirm(w)
    \/ UpdateRejects(w) \/ UpdateSave(w) \/ UpdatePubA(w) \/ UpdateDel(w)
    \/ InvKeys(w)
    \/ Return(w)

\* requests of a client that change or read the order while the job runs
ClientStep ==
  \E t \in Clients :
    \/ CallUpdateStatus(t) \/ CallCancelOrder(t) \/ CallFindOne(t)
    \/ FindOneGet(t) \/ FindOneRead(t) \/ FindOneSet(t)
    \/ UpdateRejects(t) \/ UpdateSave(t)
    \/ UpdatePubA(t)
    \/ UpdatePubB(t) \/ UpdatePubBFails(t)
    \/ UpdateDel(t)
    \/ InvKeys(t)
    \/ Return(t)

NextFulfillment == WorkerStep \/ ClientStep

SpecFulfillment == InitCreated /\ [][NextFulfillment]_vars


\* -------------------------------------- fulfillment without any inventory
\* The process-order job of the order just created, with the inventory service
\* answering unavailable in every attempt, next to clients that read.  A step
\* of the worker that can be taken is taken eventually: every awaited call
\* returns, and the queue starts a delayed job once its backoff is over.
WorkerUnavailableStep ==
  \E w \in Workers :
    \/ JobStart(w)
    \/ FindOneGet(w) \/ FindOneRead(w) \/ FindOneSet(w)
    \/ JobInventoryUnavailable(w)
    \/ UpdateRejects(w) \/ UpdateSave(w) \/ UpdatePubA(w) \/ UpdateDel(w)
    \/ InvKeys(w) \/ InvDel(w)
    \/ Return(w)

ReaderStep ==
  \E t \in Clients :
    \/ CallFindOne(t) \/ FindOneGet(t) \/ FindOneRead(t) \/ FindOneSet(t)
    \/ CallFindByUser(t) \/ FindByUserGet(t) \/ FindByUserRead(t) \/ FindByUserSet(t)
    \/ Return(t)

NextUnavailable == WorkerUnavailableStep \/ ReaderStep

SpecUnavailable ==
  InitCreated /\ [][NextUnavailable]_vars /\ WF_vars(WorkerUnavailableStep)


\* the same with every step of the worker that can be taken being taken
\* eventually (every awaited call returns, a delayed job is started again)
SpecFulfillmentFair == SpecFulfillment /\ WF_vars(WorkerStep)


\* ------------------------------------------- the same request sent twice
\* A client sends a createOrder request and then the same request again, while
\* a pool of two workers runs the process-order jobs.
InitPool ==
  /\ store = <<>>
  /\ cacheOrder = <<>>
  /\ cacheList = <<>>
  /\ cacheTtl = <<>>
  /\ kafka = <<>>
  /\ rabbit = <<>>
  /\ jobs = <<>>
  /\ thr = [t \in Clients \cup WorkerPool |-> IdleThread]
  /\ now = 0
  /\ calls = 0
  /\ storeKeys = TRUE
  /\ InitAuth

NextTwice ==
  \/ \E t \in Clients :
       \/ CallCreateOrder(t, FewDtos) \/ CallCreateOrderAgain(t)
       \/ CreateSave(t) \/ CreateSaveFails(t)
       \/ CreatePubA(t)
       \/ CreatePubB(t) \/ CreatePubBFails(t)
       \/ CreateEnqueue(t) \/ CreateEnqueueFails(t)
       \/ InvKeys(t)
       \/ Return(t)
  \/ \E w \in WorkerPool :
       \/ JobStart(w)
       \/ FindOneGet(w) \/ FindOneRead(w) \/ FindOneSet(w)
       \/ JobInventory(w) \/ JobReserve(w) \/ JobPayment(w) \/ JobConfirm(w)
       \/ UpdateRejects(w) \/ UpdateSave(w) \/ UpdatePubA(w) \/ UpdateDel(w)
       \/ InvKeys(w)
       \/ Return(w)

SpecTwice == InitPool /\ [][NextTwice]_vars


\* ------------------------------------------------ two readers of one order
\* Two clients call findOne at the same time against an orders table that is
\* empty or holds one order; nothing writes the order and no entry expires.
InitReaders ==
  /\ store \in {<<>>} \cup {<<existingOrder(s)>> : s \in OrderStatus}
  /\ cacheOrder = <<>>
  /\ cacheList = <<>>
  /\ cacheTtl = <<>>
  /\ kafka = <<>>
  /\ rabbit = <<>>
  /\ jobs = <<>>
  /\ thr = [t \in ClientPool |-> IdleThread]
  /\ now = 1
  /\ calls = 0
  /\ storeKeys = TRUE
  /\ InitAuth

NextReaders ==
  \E t \in ClientPool :
    \/ CallFindOne(t) \/ FindOneGet(t) \/ FindOneRead(t) \/ FindOneSet(t)
    \/ Return(t)

SpecReaders == InitReaders /\ [][NextReaders]_vars

\* ------------------------------------------- invalidation of the listings
\* Status changes of one stored order, one after the other, while the cache
\* holds some of the listings read before: pages 1 and 2 of the order's user
\* and page 1 of another user.  The cache backend has store.keys or not.
CachedListKeys == {<<"u1", 1, 10>>, <<"u1", 2, 10>>, <<"u2", 1, 10>>}

InitListings ==
  /\ \E s \in OrderStatus, K \in SUBSET CachedListKeys :
       /\ store = <<existingOrder(s)>>
       /\ cacheList = [k \in K |-> findAndCount(k[1], k[2], k[3])]
       /\ cacheTtl = [x \in {UserOrdersKey(k) : k \in K} |-> CACHE_TTL]
  /\ cacheOrder = <<>>
  /\ kafka = <<>>
  /\ rabbit = <<>>
  /\ jobs = <<>>
  /\ thr = [t \in Threads |-> IdleThread]
  /\ now = 1
  /\ calls = 0
  /\ storeKeys \in BOOLEAN
  /\ InitAuth

NextListings ==
  \E t \in Clients :
    \/ CallUpdateStatus(t) \/ CallCancelOrder(t)
    \/ FindOneGet(t) \/ FindOneRead(t) \/ FindOneSet(t)
    \/ UpdateRejects(t) \/ UpdateSave(t)
    \/ UpdatePubA(t)
    \/ UpdatePubB(t) \/ UpdatePubBFails(t)
    \/ UpdateDel(t)
    \/ InvKeys(t) \/ InvDel(t)
    \/ Return(t)

SpecListings == InitListings /\ [][NextListings]_vars

\* --------------------------------------- notification and invoice jobs
\* A send-notification job and a generate-invoice job for order 1, added to
\* the queue by a producer, run by the worker while a client changes the
\* status of the order.  The orders table is empty or holds order 1.
sideJob(name) ==
  [name |-> name, orderId |-> 1, userId |-> "u1", attemptsMade |-> 0,
   state |-> "waiting", progress |-> 0]

InitSideJobs ==
  /\ store \in {<<>>} \cup {<<existingOrder(s)>> : s \in OrderStatus}
  /\ cacheOrder = <<>>
  /\ cacheList = <<>>
  /\ cacheTtl = <<>>
  /\ kafka = <<>>
  /\ rabbit = <<>>
  /\ jobs = <<sideJob("send-notification"), sideJob("generate-invoice")>>
  /\ thr = [t \in Threads |-> IdleThread]
  /\ now = 1
  /\ calls = 0
  /\ storeKeys = TRUE
  /\ InitAuth

SideJobStep ==
  \E w \in Workers :
    \/ NotifyStart(w) \/ NotifyEmail(w) \/ NotifySMS(w) \/ NotifyFails(w)
    \/ InvoiceStart(w)
    \/ FindOneGet(w) \/ FindOneRead(w) \/ FindOneSet(w)
    \/ InvoicePdf(w)
    \/ Return(w)

NextSideJobs == SideJobStep \/ ClientStep

SpecSideJobs == InitSideJobs /\ [][NextSideJobs]_vars

\* ====================================================================
\* Properties
\* ====================================================================

\* the transition table of the specification (section 4.1)
AllowedNext(status) ==
  CASE status = PENDING -> {CONFIRMED, CANCELLED}
    [] status = CONFIRMED -> {PROCESSING, CANCELLED}
    [] status = PROCESSING -> {SHIPPED, CANCELLED}
    [] status = SHIPPED -> {DELIVERED}
    [] status = DELIVERED -> {}
    [] status = CANCELLED -> {}

\* m is an ORDER_CREATED event (RabbitMQ also carries notifications)
IsCreated(m) == "eventType" \in DOMAIN m /\ m.eventType = "ORDER_CREATED"

\* thread t leaves position pc in this step
Leaves(t, pc) == thr[t].pc = pc /\ thr'[t].pc # pc

\* C1: every change of an order's stored status goes along an edge of the
\* transition graph, under any interleaving of requests and job attempts.
C1_StatusMovesAlongEdges ==
  [][\A i \in DOMAIN store :
       store'[i].status # store[i].status
         => store'[i].status \in AllowedNext(store[i].status)]_vars

\* C2: an updateStatus whose target is not an allowed successor of the order's
\* current (stored) status fails with BadRequest and leaves the stored order
\* unchanged.
C2_DisallowedTargetRejected ==
  [][\A t \in Threads :
       (Leaves(t, "u_save")
          /\ thr[t].target \notin AllowedNext(store[thr[t].id].status))
         => /\ store' = store
            /\ thr'[t].pc # "u_pubA"
            /\ (thr[t].op # "job" => thr'[t].outcome = "BadRequest")]_vars

\* C3: once the stored status of an order is DELIVERED or CANCELLED it never
\* changes again.
C3_TerminalStatusIsFinal ==
  [][\A i \in DOMAIN store :
       store[i].status \in {DELIVERED, CANCELLED}
         => store'[i].status = store[i].status]_vars

\* C4: the validator accepts (current, requested) exactly when requested is in
\* the specification's allowedNext(current), and otherwise the request fails
\* with BadRequest; self-transitions and transitions out of DELIVERED and
\* CANCELLED are rejected.
C4_ValidatorMatchesTable ==
  [][\A t \in Clients :
       Leaves(t, "u_save")
         => /\ (thr'[t].pc = "u_pubA")
                 <=> (thr[t].target \in AllowedNext(thr[t].order.status))
            /\ (thr'[t].pc # "u_pubA")
                 => (thr'[t].pc = "done" /\ thr'[t].outcome = "BadRequest")
            /\ (thr[t].target = thr[t].order.status
                  \/ thr[t].order.status \in {DELIVERED, CANCELLED})
                 => thr'[t].outcome = "BadRequest"]_vars

\* a request for a self-transition of a delivered order was rejected
C4_Witness ==
  \E t \in Clients :
    /\ thr[t].op = "updateStatus" /\ thr[t].pc = "done"
    /\ thr[t].outcome = "BadRequest"
    /\ thr[t].target = DELIVERED
    /\ store[thr[t].id].status = DELIVERED

\* C5: in every state of the store, cancelledAt and cancelReason of an order
\* are non-null if and only if its status is CANCELLED.
C5_CancelFieldsIffCancelled ==
  \A i \in DOMAIN store :
    /\ store[i].status = CANCELLED
         => (store[i].cancelledAt # NoDate /\ store[i].cancelReason # NULL)
    /\ store[i].status # CANCELLED
         => (store[i].cancelledAt = NoDate /\ store[i].cancelReason = NULL)

\* an order was cancelled without a reason given: cancelReason defaults to ''
C5_Witness ==
  \E i \in DOMAIN store :
    /\ store[i].status = CANCELLED
    /\ store[i].cancelledAt # NoDate
    /\ store[i].cancelReason = ""

\* C6: cancelledAt and cancelReason are write-once: after they have been set
\* no later operation changes or clears them.
C6_CancelFieldsWriteOnce ==
  [][\A i \in DOMAIN store :
       store[i].cancelledAt # NoDate
         => /\ store'[i].cancelledAt = store[i].cancelledAt
            /\ store'[i].cancelReason = store[i].cancelReason]_vars

\* the item list of the request, as products unitPrice * quantity
Products(items) == [k \in 1..Len(items) |-> items[k].unitPrice * items[k].quantity]

\* C7: the order persisted by createOrder has totalAmount equal to the sum of
\* unitPrice * quantity over the request's items, and every item has
\* totalPrice = unitPrice * quantity.
C7_TotalsMatchItems ==
  \A t \in Clients :
    (thr[t].op = "createOrder" /\ thr[t].id \in DOMAIN store)
      => LET o == store[thr[t].id] IN
         /\ o.totalAmount = SumSeq(Products(thr[t].dto))
         /\ Len(o.items) = Len(thr[t].dto)
         /\ \A k \in 1..Len(o.items) :
              /\ o.items[k].unitPrice = thr[t].dto[k].unitPrice
              /\ o.items[k].quantity = thr[t].dto[k].quantity
              /\ o.items[k].totalPrice = thr[t].dto[k].unitPrice * thr[t].dto[k].quantity

\* createOrder returned an order of MaxItems items bought MaxQty times each
C7_Witness ==
  \E t \in Clients :
    /\ thr[t].op = "createOrder" /\ thr[t].pc = "done" /\ thr[t].outcome = "ok"
    /\ Len(thr[t].result.items) = MaxItems
    /\ \A k \in 1..MaxItems : thr[t].dto[k] = Item(MaxPrice, MaxQty)
    /\ store[thr[t].id].totalAmount = MaxItems * MaxPrice * MaxQty

\* C8: createOrder with an empty item list is rejected: nothing is persisted,
\* nothing is published, no job is enqueued.
C8_EmptyItemsRejected ==
  /\ \A i \in DOMAIN store : store[i].items # <<>>
  /\ \A k \in DOMAIN kafka :
       IsCreated(kafka[k]) => kafka[k].itemCount > 0
  /\ \A k \in DOMAIN rabbit :
       IsCreated(rabbit[k]) => rabbit[k].itemCount > 0
  /\ \A j \in DOMAIN jobs : store[jobs[j].orderId].items # <<>>
  /\ \A t \in Clients :
       (thr[t].op = "createOrder" /\ thr[t].dto = <<>> /\ thr[t].pc = "done")
         => thr[t].outcome = "BadRequest"

\* C9: every order persisted by createOrder starts as PENDING with null
\* cancelledAt and cancelReason, and createOrder returns the persisted order.
C9_CreatedPendingAndReturned ==
  /\ [][\A i \in DOMAIN store' \ DOMAIN store :
          /\ store'[i].status = PENDING
          /\ store'[i].cancelledAt = NoDate
          /\ store'[i].cancelReason = NULL]_vars
  /\ [](\A t \in Clients :
          (thr[t].op = "createOrder" /\ thr[t].pc = "done" /\ thr[t].outcome = "ok")
            => /\ thr[t].result.id \in DOMAIN store
               /\ thr[t].result.status = PENDING
               /\ thr[t].result.cancelledAt = NoDate
               /\ thr[t].result.cancelReason = NULL
               /\ thr[t].result.userId = store[thr[t].result.id].userId
               /\ thr[t].result.totalAmount = store[thr[t].result.id].totalAmount
               /\ thr[t].result.items = store[thr[t].result.id].items)

\* createOrder returned its order
C9_Witness ==
  \E t \in Clients :
    /\ thr[t].op = "createOrder" /\ thr[t].pc = "done" /\ thr[t].outcome = "ok"
    /\ thr[t].result.id \in DOMAIN store
    /\ thr[t].result.status = PENDING

\* C10: if persisting the order fails in createOrder, no side effect runs: no
\* cache entry is invalidated, nothing is emitted to Kafka or RabbitMQ, no job
\* is enqueued; these effects happen only after a successful save.
C10_AtomicGate ==
  /\ [][\A t \in Clients :
          (Leaves(t, "c_save") /\ thr'[t].outcome = "DbError")
            => /\ thr'[t].pc = "done"
               /\ UNCHANGED <<store, cacheOrder, cacheList, kafka, rabbit, jobs, cacheTtl>>]_vars
  /\ [][\A t \in Clients :
          (thr[t].op = "createOrder" /\ thr[t].pc # "done"
             /\ <<cacheOrder, cacheList, kafka, rabbit, jobs>>
                  # <<cacheOrder', cacheList', kafka', rabbit', jobs'>>
             /\ thr'[t] # thr[t])
            => thr[t].order.id \in DOMAIN store]_vars
  /\ [](/\ \A k \in DOMAIN kafka :
             IsCreated(kafka[k]) => kafka[k].orderId \in DOMAIN store
        /\ \A k \in DOMAIN rabbit :
             IsCreated(rabbit[k]) => rabbit[k].orderId \in DOMAIN store
        /\ \A j \in DOMAIN jobs : jobs[j].orderId \in DOMAIN store)

\* a save failed while a listing was cached: the listing is still cached and
\* nothing was persisted, published or enqueued
C10_Witness ==
  \E t \in Clients :
    /\ thr[t].op = "createOrder" /\ thr[t].pc = "done" /\ thr[t].outcome = "DbError"
    /\ cacheList # <<>>
    /\ store = <<>> /\ kafka = <<>> /\ rabbit = <<>> /\ jobs = <<>>

\* C11: when the publish of the created event or the enqueue of the job fails
\* in createOrder, the error reaches the caller and the order saved before
\* stays in the store, unchanged and PENDING.
C11_FailureKeepsOrder ==
  /\ [][\A t \in Clients :
          (thr[t].op = "createOrder" /\ thr[t].pc \in {"c_pubB", "c_enqueue"}
             /\ thr'[t].pc = "done" /\ thr'[t].outcome # "ok")
            => /\ thr'[t].outcome \in {"PublishFailure", "QueueFailure"}
               /\ store' = store]_vars
  /\ [](\A t \in Clients :
          (thr[t].op = "createOrder" /\ thr[t].pc = "done"
             /\ thr[t].outcome \in {"PublishFailure", "QueueFailure"})
            => /\ thr[t].id \in DOMAIN store
               /\ store[thr[t].id].status = PENDING)

\* the publish to RabbitMQ failed after the order was saved and sent to Kafka
C11_Witness ==
  \E t \in Clients :
    /\ thr[t].op = "createOrder" /\ thr[t].pc = "done"
    /\ thr[t].outcome = "PublishFailure"
    /\ thr[t].id \in DOMAIN store /\ store[thr[t].id].status = PENDING
    /\ \E k \in DOMAIN kafka : IsCreated(kafka[k]) /\ kafka[k].orderId = thr[t].id

\* the created event of order id is in sequence q
HasCreated(q, id) == \E k \in DOMAIN q : IsCreated(q[k]) /\ q[k].orderId = id
\* a process-order job of order id is in the queue (in whatever state)
HasJob(id) == \E j \in DOMAIN jobs : jobs[j].orderId = id
\* a listing of user u is cached
HasListing(u) == \E k \in DOMAIN cacheList : k[1] = u

IsCancelledEvent(m) == "eventType" \in DOMAIN m /\ m.eventType = "ORDER_CANCELLED"

\* thread t ends its awaited RabbitMQ emit at position pc with nothing delivered
EmitRejected(t, pc) == Leaves(t, pc) /\ rabbit' = rabbit

\* thread t ends its Kafka emit at position pc with the event lost
EmitLost(t, pc) ==
  /\ Leaves(t, pc) /\ Len(kafka') = Len(kafka) + 1
  /\ "lost" \in DOMAIN kafka'[Len(kafka')]

\* C18: a broker failure while the created event or the status-changed event
\* is published makes createOrder / updateStatus / cancelOrder fail with the
\* publish error, whereas a broker failure while the cancelled event is
\* published is swallowed: publishOrderCancelled returns normally.
C18_PublishFailurePropagation ==
  [][\A t \in Clients :
       /\ (EmitLost(t, "c_pubA") \/ EmitRejected(t, "c_pubB")
              \/ EmitLost(t, "u_pubA") \/ EmitRejected(t, "u_pubB"))
            => thr'[t].pc = "done" /\ thr'[t].outcome = "PublishFailure"
       /\ EmitLost(t, "x_pubA") => thr'[t].pc = "x_pubB"
       /\ EmitRejected(t, "x_pubB")
            => thr'[t].pc = "done" /\ thr'[t].outcome = "ok"]_vars

FindOneStep(t, pc) ==
  thr[t].op = "findOne" /\ thr[t].pc = pc /\ thr'[t] # thr[t]

\* C13: on a warm cache findOne(id) returns the cached entry without reading
\* the store and without changing cache or store; and whenever findOne
\* returns, the cache holds what it returned, so that a second call right
\* after it returns equal data.
C13_WarmFindOneIdempotent ==
  [][\A t \in Clients :
       /\ (FindOneStep(t, "f_get") /\ thr[t].id \in DOMAIN cacheOrder)
            => /\ thr'[t].pc = "done" /\ thr'[t].outcome = "ok"
               /\ thr'[t].result = cacheOrder[thr[t].id]
               /\ UNCHANGED <<store, cacheOrder, cacheList, cacheTtl>>
       /\ (thr[t].op = "findOne" /\ thr[t].pc # "done"
              /\ thr'[t].pc = "done" /\ thr'[t].outcome = "ok")
            => /\ thr[t].id \in DOMAIN cacheOrder'
               /\ cacheOrder'[thr[t].id] = thr'[t].result]_vars

\* the second of two findOne calls returned the entry the first one cached
C13_Witness ==
  \E t \in Clients :
    /\ calls = 2 /\ cacheList = <<>>
    /\ thr[t].op = "findOne" /\ thr[t].pc = "done" /\ thr[t].outcome = "ok"
    /\ thr[t].id \in DOMAIN cacheOrder
    /\ thr[t].result = cacheOrder[thr[t].id]

\* C14: on a cache miss findOne(id) reads the store; if the order is absent it
\* fails with NotFound and writes nothing to the cache; otherwise it stores
\* the loaded order under order:<id> with a TTL of 300 seconds and returns it.
C14_MissReadsStore ==
  [][\A t \in Clients :
       /\ (FindOneStep(t, "f_get") /\ thr[t].id \notin DOMAIN cacheOrder)
            => thr'[t].pc = "f_read" /\ UNCHANGED <<store, cacheOrder, cacheTtl>>
       /\ (FindOneStep(t, "f_read") /\ thr[t].id \notin DOMAIN store)
            => /\ thr'[t].pc = "done" /\ thr'[t].outcome = "NotFound"
               /\ UNCHANGED <<store, cacheOrder, cacheList, cacheTtl>>
       /\ (FindOneStep(t, "f_read") /\ thr[t].id \in DOMAIN store)
            => /\ thr'[t].pc = "f_set" /\ thr'[t].order = store[thr[t].id]
               /\ UNCHANGED <<store, cacheOrder, cacheList, cacheTtl>>
       /\ FindOneStep(t, "f_set")
            => /\ cacheOrder' = Put(cacheOrder, thr[t].id, thr[t].order)
               /\ cacheTtl' = Put(cacheTtl, OrderKey(thr[t].id), 300)
               /\ thr[t].order.id = thr[t].id
               /\ thr'[t].pc = "done" /\ thr'[t].outcome = "ok"
               /\ thr'[t].result = thr[t].order
               /\ UNCHANGED <<store, cacheList>>]_vars

\* findOne of an unknown id failed with NotFound and left the cache empty
C14_Witness ==
  \E t \in Clients :
    /\ thr[t].op = "findOne" /\ thr[t].pc = "done"
    /\ thr[t].outcome = "NotFound"
    /\ thr[t].id \notin DOMAIN store
    /\ cacheOrder = <<>> /\ cacheTtl = <<>>

\* thread t returns from a successful updateStatus in this step (the call of a
\* client, of cancelOrder, or of a process-order attempt)
UpdateSucceeds(t) ==
  /\ thr[t].op \in {"updateStatus", "cancelOrder", "job"}
  /\ thr[t].pc \in {"inv_keys", "inv_del"}
  /\ thr'[t].pc = "done"

\* C15: when a successful updateStatus returns, the cache holds no entry
\* order:<id> of the order and no listing entry of its owner, so that the next
\* findOne or findByUser reads the store.
C15_UpdateLeavesNoCacheEntry ==
  [][\A t \in Threads :
       UpdateSucceeds(t)
         => /\ thr[t].id \notin DOMAIN cacheOrder'
            /\ ~HasListing(thr[t].order.userId)']_vars

\* client thread t, running updateStatus or cancelOrder, takes a step
UpdateStep(t) ==
  thr[t].op \in {"updateStatus", "cancelOrder"} /\ thr'[t] # thr[t]

\* C16: an updateStatus(id, s) whose transition is accepted saves the order
\* with status s, then publishes exactly one status-changed event for the
\* saved order, then deletes order:<id> and the owner's listings, then returns
\* the saved order with status s.
C16_PersistPublishInvalidate ==
  [][\A t \in Clients :
       UpdateStep(t)
         => LET id == thr[t].id IN
            /\ store' # store
                 => /\ thr[t].pc = "u_save" /\ thr'[t].pc = "u_pubA"
                    /\ store'[id].status = thr[t].target
                    /\ thr'[t].order = store'[id]
                    /\ UNCHANGED <<cacheOrder, cacheList, kafka, rabbit>>
            /\ kafka' # kafka
                 => /\ thr[t].pc = "u_pubA" /\ thr'[t].pc \in {"u_pubB", "u_del"}
                    /\ kafka' = Append(kafka, statusChangedEvent(thr[t].order))
                    /\ thr[t].order.status = thr[t].target
                    /\ UNCHANGED <<store, cacheOrder, cacheList>>
            /\ (cacheOrder' # cacheOrder /\ thr[t].pc # "f_set")
                 => /\ thr[t].pc = "u_del" /\ thr'[t].pc = "inv_keys"
                    /\ id \notin DOMAIN cacheOrder'
                    /\ UNCHANGED <<store, kafka, rabbit, cacheList>>
            /\ cacheList' # cacheList
                 => /\ thr[t].pc = "inv_del"
                    /\ ~HasListing(thr[t].order.userId)'
                    /\ UNCHANGED <<store, kafka, rabbit, cacheOrder>>
            /\ (thr'[t].pc = "done" /\ thr'[t].outcome = "ok")
                 => /\ thr[t].pc \in {"inv_keys", "inv_del"}
                    /\ thr'[t].result = thr[t].order
                    /\ thr'[t].result.id = id
                    /\ thr'[t].result.status = thr[t].target
                    /\ ~HasListing(thr[t].order.userId)'
                    /\ UNCHANGED <<store, kafka, rabbit>>
            /\ thr[t].pc \in {"u_pubB", "u_del", "inv_keys", "inv_del"}
                 => \E k \in DOMAIN kafka :
                      kafka[k] = statusChangedEvent(thr[t].order)]_vars

\* updateStatus(1, CONFIRMED) on a PENDING order returned the order CONFIRMED
\* after saving it, publishing the change and deleting its cache entry
C16_Witness ==
  \E t \in Clients :
    /\ thr[t].op = "updateStatus" /\ thr[t].pc = "done" /\ thr[t].outcome = "ok"
    /\ thr[t].target = CONFIRMED /\ thr[t].result.status = CONFIRMED
    /\ store[thr[t].id].status = CONFIRMED
    /\ thr[t].id \notin DOMAIN cacheOrder
    /\ \E k \in DOMAIN kafka : kafka[k] = statusChangedEvent(thr[t].result)

\* what a caller and the collaborators can see once the call of thread t is over
Observed(t) ==
  [outcome |-> thr[t].outcome, result |-> thr[t].result, store |-> store,
   cacheOrder |-> cacheOrder, cacheList |-> cacheList, kafka |-> kafka,
   rabbit |-> rabbit]

\* what updateStatus(id, CANCELLED, reason) leaves behind as the first request
\* when the orders table holds existingOrder(status)
AfterUpdateToCancelled(id, status, reason) ==
  LET old == existingOrder(status)
      new == applyStatus(old, CANCELLED, reason, 2)
  IN IF id # old.id
     THEN [outcome |-> "NotFound", result |-> NoOrd, store |-> <<old>>,
           cacheOrder |-> <<>>, cacheList |-> <<>>,
           kafka |-> <<>>, rabbit |-> <<>>]
     ELSE IF validateStatusTransition(status, CANCELLED)
     THEN [outcome |-> "ok", result |-> new, store |-> <<new>>,
           cacheOrder |-> <<>>, cacheList |-> <<>>,
           kafka |-> <<statusChangedEvent(new)>>, rabbit |-> <<>>]
     ELSE [outcome |-> "BadRequest", result |-> NoOrd, store |-> <<old>>,
           cacheOrder |-> Put(<<>>, 1, old), cacheList |-> <<>>,
           kafka |-> <<>>, rabbit |-> <<>>]

\* C17: cancelOrder(id, reason) and updateStatus(id, CANCELLED, reason) are
\* equivalent: as the first request on an order in any status, either of them
\* ends with the same result or error and leaves the same store, cache and
\* emitted events (NotFound for an unknown id).
C17_CancelIsUpdateToCancelled ==
  \A t \in Clients :
    (calls = 1 /\ thr[t].pc = "done"
       /\ (thr[t].op = "cancelOrder"
              \/ (thr[t].op = "updateStatus" /\ thr[t].target = CANCELLED)))
      => Observed(t) = AfterUpdateToCancelled(
                         thr[t].id,
                         IF thr[t].outcome = "ok" THEN PENDING
                         ELSE store[1].status, thr[t].reason)

\* cancelOrder was rejected on a shipped order, which findOne had cached
C17_Witness ==
  \E t \in Clients :
    /\ calls = 1 /\ thr[t].op = "cancelOrder" /\ thr[t].pc = "done"
    /\ thr[t].outcome = "BadRequest"
    /\ store[1].status = SHIPPED
    /\ 1 \in DOMAIN cacheOrder

\* the pipeline step a process-order attempt is in: 1 validateOrder running
\* (progress 20 reported), 2 checkInventory due, 3 reserveInventory due,
\* 4 initiatePayment due, 5 the confirmation due (each with its progress
\* report still to make), 6 updateStatus(CONFIRMED) running, 7 the catch
\* block, 0 not running
PipelineStep(th) ==
  IF th.op # "job" \/ th.pc \in {"idle", "done"} THEN 0
  ELSE IF th.phase = "cancel" THEN 7
  ELSE IF th.phase = "confirm" THEN 6
  ELSE CASE th.pc = "j_inventory" -> 2
         [] th.pc = "j_reserve" -> 3
         [] th.pc = "j_payment" -> 4
         [] th.pc = "j_confirm" -> 5
         [] OTHER -> 1

\* C20: within one process-order attempt the steps run one after the other in
\* the order validateOrder, checkInventory, reserveInventory, initiatePayment,
\* the progress goes 20, 40, 60, 80, 100, and updateStatus(CONFIRMED) is
\* called only after all four steps succeeded, never after a step failed.
C20_PipelineIsSequential ==
  [][\A w \in Workers :
       thr'[w] # thr[w]
         => LET a == PipelineStep(thr[w])
                b == PipelineStep(thr'[w])
                j == thr'[w].job
            IN /\ (a = 0 /\ b # 0) => b = 1 /\ jobs'[j].progress = 20
               /\ (a \in 1..5 /\ b \notin {0, 7}) => b \in {a, a + 1}
               /\ (a \in 1..5 /\ b = a + 1)
                    => /\ jobs[j].progress = IF a = 1 THEN 20 ELSE 20 * (a - 1)
                       /\ jobs'[j].progress = IF a = 1 THEN 20 ELSE 20 * a
               /\ a = 7 => b \in {7, 0}
               /\ a = 6 => b \in {6, 7, 0}
               /\ b = 6
                    => /\ jobs'[j].progress = 100
                       /\ thr'[w].target = CONFIRMED
               /\ (thr'[w].op = "job" /\ thr'[w].target = CONFIRMED
                      /\ thr'[w].pc \notin {"idle", "done"})
                    => b = 6
               /\ (b \in 1..5) => jobs'[j].progress = IF b = 1 THEN 20 ELSE 20 * (b - 1)]_vars

\* an attempt ran all four steps, confirmed the order and completed
C20_Witness ==
  \E w \in Workers :
    /\ thr[w].op = "job" /\ thr[w].pc = "done" /\ thr[w].outcome = "ok"
    /\ jobs[thr[w].job].progress = 100
    /\ jobs[thr[w].job].state = "removed"
    /\ store[thr[w].id].status = CONFIRMED

\* C21: when a step of a process-order attempt raises an error e (validateOrder
\* on an order without items, checkInventory reporting unavailable, or the
\* confirming updateStatus), no later step runs, the handler calls
\* updateStatus(orderId, CANCELLED, cancelReason = e.message) once, and the
\* attempt then fails by re-raising e to the queue.
C21_CatchCancelsThenRethrows ==
  [][\A w \in Workers :
       LET a == PipelineStep(thr[w])
           b == PipelineStep(thr'[w])
           j == thr[w].job
       IN /\ (a # 7 /\ b = 7)
               => /\ a \in {1, 2, 6}
                  /\ thr'[w].jobErr = (CASE a = 1 -> "NoItems"
                                          [] a = 2 -> "Inventory"
                                          [] a = 6 -> "BadRequest")
                  /\ thr'[w].pc = "f_get" /\ thr'[w].id = jobs[j].orderId
                  /\ thr'[w].target = CANCELLED
                  /\ thr'[w].reason = Message(thr'[w].jobErr)
                  /\ UNCHANGED <<store, kafka, rabbit>>
          /\ a = 7 => b \in {7, 0}
          /\ (a = 7 /\ b = 7 /\ thr'[w] # thr[w]) => thr'[w].pc # "f_get"
          /\ (a = 7 /\ b = 0)
               => /\ thr[w].pc \in {"inv_keys", "inv_del"}
                  /\ thr'[w].outcome = thr[w].jobErr
                  /\ jobs'[j].attemptsMade = jobs[j].attemptsMade + 1
                  /\ jobs'[j].state \in {"delayed", "failed"}]_vars

\* the process-order job of order 1
JobOf1 == jobs[1]

JobOver(j) == jobs[j].state \in {"removed", "failed"}

\* C23: every process-order job terminates: it is attempted at most 3 times,
\* it eventually either completes (its record is removed) or is left failed
\* (its record is kept), and it is never started a fourth time.
C23_JobTerminates ==
  /\ [](\A j \in DOMAIN jobs :
          /\ jobs[j].attemptsMade <= 3
          /\ jobs[j].state = "failed" => jobs[j].attemptsMade = 3
          /\ jobs[j].state = "delayed" => jobs[j].attemptsMade \in 1..2
          /\ jobs[j].state = "active" => jobs[j].attemptsMade < 3)
  /\ [][\A j \in DOMAIN jobs : JobOver(j) => jobs'[j] = jobs[j]]_vars
  /\ <>[](\A j \in DOMAIN jobs : JobOver(j))

\* a job failed once, was retried and completed at its second attempt
C23_Witness ==
  \E j \in DOMAIN jobs :
    /\ jobs[j].state = "removed" /\ jobs[j].attemptsMade = 2
    /\ jobs[j].progress = 100

\* C24: concurrent updateStatus calls on one order are not serialized: a call
\* that loaded the order and validated its target against the loaded status
\* persists and publishes whatever the store holds by then, so that of two
\* calls that validated against the same status both succeed and the stored
\* status is that of the save that ran last; no version check rejects the
\* second writer.
C24_LastWriteWins ==
  [][\A t \in Threads :
       thr'[t] # thr[t]
         => /\ (thr[t].pc = "u_save"
                  /\ thr[t].target \in AllowedNext(thr[t].order.status))
                 => /\ store'[thr[t].id].status = thr[t].target
                    /\ thr'[t].pc = "u_pubA"
            /\ thr[t].pc = "u_pubA"
                 => kafka' = Append(kafka, statusChangedEvent(thr[t].order))
            /\ (thr[t].pc \in {"u_pubA", "u_del", "inv_keys", "inv_del"}
                  /\ thr[t].target \notin {SHIPPED, DELIVERED}
                  /\ thr'[t].pc = "done" /\ thr[t].op # "job")
                 => thr'[t].outcome = "ok" /\ thr'[t].result.status = thr[t].target]_vars

\* a client's cancelOrder and the job's updateStatus(CONFIRMED) both validated
\* against PENDING and both succeeded; the job saved last, so the order is
\* stored CONFIRMED, and both status-changed events were published
C24_Witness ==
  \E t \in Clients, w \in Workers :
    /\ thr[t].op = "cancelOrder" /\ thr[t].pc = "done" /\ thr[t].outcome = "ok"
    /\ thr[t].result.status = CANCELLED
    /\ thr[w].op = "job" /\ thr[w].pc = "done" /\ thr[w].outcome = "ok"
    /\ thr[w].id = thr[t].id
    /\ jobs[thr[w].job].attemptsMade = 1
    /\ store[thr[t].id].status = CONFIRMED
    /\ \E k \in DOMAIN kafka : kafka[k] = statusChangedEvent(thr[t].result)
    /\ \E k \in DOMAIN kafka : kafka[k] = statusChangedEvent(store[thr[t].id])
    /\ calls = 1

\* the process-order jobs that carry order id
JobsOf(id) == {j \in DOMAIN jobs : jobs[j].orderId = id}

\* C25: fulfillment jobs are not deduplicated: each successful createOrder adds
\* exactly one process-order job carrying the new order's id and userId, so
\* that the same request sent twice produces two distinct orders and two jobs,
\* each run on its own.
C25_OneJobPerCreateOrder ==
  /\ [][\A t \in Clients :
          (thr[t].op = "createOrder" /\ thr'[t] # thr[t])
            => /\ Leaves(t, "c_save") /\ thr'[t].pc # "done"
                    => /\ Len(store') = Len(store) + 1
                       /\ thr'[t].order.id = Len(store')
                       /\ JobsOf(Len(store')) = {}
               /\ (Leaves(t, "c_enqueue") /\ thr'[t].pc # "done")
                    => jobs' = Append(jobs, [name |-> "process-order",
                                             orderId |-> thr[t].order.id,
                                             userId |-> thr[t].order.userId,
                                             attemptsMade |-> 0,
                                             state |-> "waiting", progress |-> 0])
               /\ ~Leaves(t, "c_enqueue") => Len(jobs') = Len(jobs)]_vars
  /\ [](\A i \in DOMAIN store :
          /\ store[i].id = i
          /\ Cardinality(JobsOf(i)) <= 1
          /\ \A j \in JobsOf(i) : jobs[j].userId = store[i].userId)
  /\ [](\A t \in Clients :
          (thr[t].op = "createOrder" /\ thr[t].pc = "done" /\ thr[t].outcome = "ok")
            => Cardinality(JobsOf(thr[t].result.id)) = 1)
  /\ [][\A w \in WorkerPool :
          (thr[w].op = "job" /\ thr'[w] # thr[w])
            => \A j \in DOMAIN jobs :
                 j # thr[w].job => jobs'[j] = jobs[j]]_vars

\* the same request was sent twice: two orders that differ in their id only,
\* each with its own job, and the two jobs are being run at the same time
C25_Witness ==
  /\ Len(store) = 2 /\ Len(jobs) = 2
  /\ store[2] = [store[1] EXCEPT !.id = 2]
  /\ jobs[1].orderId = 1 /\ jobs[2].orderId = 2
  /\ jobs[1].state = "active" /\ jobs[2].state = "active"
  /\ \E w1 \in WorkerPool, w2 \in WorkerPool :
       /\ thr[w1].job = 1 /\ thr[w2].job = 2
       /\ thr[w1].pc = "j_reserve" /\ thr[w2].pc = "j_payment"

\* the fields of an order that are set at creation
CreationFields(o) ==
  [id |-> o.id, userId |-> o.userId, totalAmount |-> o.totalAmount,
   items |-> o.items, shippingAddress |-> o.shippingAddress]

\* C26: updateStatus and cancelOrder change only status, cancelledAt and
\* cancelReason of the stored order: userId, totalAmount, the items with their
\* totalPrice and the shippingAddress keep the values set at creation through
\* any sequence of status changes.
C26_StatusChangeKeepsCreationFields ==
  /\ [][\A i \in DOMAIN store :
          CreationFields(store'[i]) = CreationFields(store[i])]_vars
  /\ [](\A i \in DOMAIN store :
          /\ store[i].totalAmount = SumSeq(Products(store[i].items))
          /\ \A k \in DOMAIN store[i].items :
               store[i].items[k].totalPrice
                 = store[i].items[k].unitPrice * store[i].items[k].quantity
          /\ store[i].shippingAddress \in Addresses
          /\ store[i].userId \in Users)

\* an order with an item was confirmed and then cancelled, and still has the
\* amount, items and address it was created with
C26_Witness ==
  \E i \in DOMAIN store, k1 \in DOMAIN kafka, k2 \in DOMAIN kafka :
    /\ k1 < k2
    /\ kafka[k1].eventType = "ORDER_STATUS_CHANGED" /\ kafka[k1].newStatus = CONFIRMED
    /\ kafka[k2].eventType = "ORDER_STATUS_CHANGED" /\ kafka[k2].newStatus = CANCELLED
    /\ store[i].status = CANCELLED /\ store[i].cancelledAt # NoDate
    /\ store[i].items = mapItems(<<Item(MaxPrice, 1)>>)
    /\ store[i].totalAmount = MaxPrice
    /\ store[i].shippingAddress = "addr1"

\* C27: no order is ever removed from the store: the set of stored order ids
\* only grows, whatever requests and job attempts run; a cancellation changes
\* the status of the row and keeps the row.
C27_OrdersAreNeverRemoved ==
  /\ [][/\ DOMAIN store \subseteq DOMAIN store'
        /\ \A i \in DOMAIN store : store'[i].id = store[i].id]_vars
  /\ [](\A i \in DOMAIN store : store[i].id = i)
  /\ [][\A t \in Threads :
          (thr[t].pc = "u_save" /\ thr'[t].pc = "u_pubA" /\ thr[t].target = CANCELLED)
            => /\ thr[t].id \in DOMAIN store'
               /\ store'[thr[t].id].status = CANCELLED]_vars

\* the order was cancelled by the catch block of its job, the job failed for
\* good, and the order is still in the store
C27_Witness ==
  \E j \in DOMAIN jobs :
    /\ jobs[j].state = "failed"
    /\ jobs[j].orderId \in DOMAIN store
    /\ store[jobs[j].orderId].status = CANCELLED
    /\ store[jobs[j].orderId].cancelReason = "Order has no items"

\* m is an order_notification message
IsNotification(m) == "type" \in DOMAIN m /\ m.type = "STATUS_UPDATE"

\* m is an ORDER_STATUS_CHANGED event
IsStatusChanged(m) ==
  "eventType" \in DOMAIN m /\ m.eventType = "ORDER_STATUS_CHANGED"

\* what was handed to the Kafka client, whether or not Kafka took it
Envelope(m) == [x \in (DOMAIN m) \ {"lost"} |-> m[x]]

\* C29: publishOrderStatusChanged always emits one status-changed event to
\* Kafka, and sends an order_notification to RabbitMQ if and only if the new
\* status is SHIPPED or DELIVERED; for CONFIRMED, PROCESSING and CANCELLED
\* nothing is sent to RabbitMQ.
C29_NotificationIffShippedOrDelivered ==
  /\ [][\A t \in Clients :
          thr'[t] # thr[t]
            => LET o == thr[t].order IN
               /\ thr[t].pc = "u_pubA"
                    => /\ Len(kafka') = Len(kafka) + 1
                       /\ SubSeq(kafka', 1, Len(kafka)) = kafka
                       /\ Envelope(kafka'[Len(kafka')]) = statusChangedEvent(o)
                       /\ rabbit' = rabbit
                       /\ thr'[t].pc = "u_pubB" <=> o.status \in {SHIPPED, DELIVERED}
                       /\ thr'[t].pc # "u_pubB" => thr'[t].pc = "u_del"
               /\ thr[t].pc = "u_pubB"
                    => /\ o.status \in {SHIPPED, DELIVERED}
                       /\ kafka' = kafka
                       /\ \/ rabbit' = Append(rabbit, notification(o))
                                /\ thr'[t].pc = "u_del"
                          \/ rabbit' = rabbit /\ thr'[t].pc = "done"
                                /\ thr'[t].outcome = "PublishFailure"
               /\ (thr[t].op \in {"updateStatus", "cancelOrder"}
                      /\ thr[t].pc \notin {"u_pubA", "u_pubB"})
                    => kafka' = kafka /\ rabbit' = rabbit]_vars
  /\ [](\A k \in DOMAIN rabbit :
          IsNotification(rabbit[k])
            => /\ rabbit[k].status \in {SHIPPED, DELIVERED}
               /\ \E a \in DOMAIN kafka :
                    /\ IsStatusChanged(kafka[a])
                    /\ kafka[a].orderId = rabbit[k].orderId
                    /\ kafka[a].newStatus = rabbit[k].status)

\* updateStatus to DELIVERED returned: one status-changed event on Kafka and
\* one notification on RabbitMQ, both for DELIVERED
C29_Witness ==
  \E t \in Clients :
    /\ thr[t].op = "updateStatus" /\ thr[t].pc = "done" /\ thr[t].outcome = "ok"
    /\ thr[t].target = DELIVERED
    /\ \E k \in DOMAIN rabbit : rabbit[k] = notification(thr[t].result)
    /\ \E a \in DOMAIN kafka : kafka[a] = statusChangedEvent(thr[t].result)
    /\ store[thr[t].id].status = DELIVERED

\* C30: publishOrderCreated hands the same envelope first to Kafka and then to
\* RabbitMQ and awaits RabbitMQ only; the two deliveries are not atomic: when
\* the RabbitMQ emit fails, or the process stops between the two emits, Kafka
\* already has the event, and the call fails without taking it back.
C30_CreatedDualDeliveryNotAtomic ==
  /\ [][\A t \in Clients :
          (thr[t].op = "createOrder" /\ thr'[t] # thr[t])
            => LET o == thr[t].order IN
               /\ thr[t].pc = "c_pubA"
                    => /\ Len(kafka') = Len(kafka) + 1
                       /\ SubSeq(kafka', 1, Len(kafka)) = kafka
                       /\ Envelope(kafka'[Len(kafka')]) = createdEvent(o)
                       /\ rabbit' = rabbit
                       /\ thr'[t].pc = "c_pubB"
               /\ thr[t].pc = "c_pubB"
                    => /\ kafka' = kafka
                       /\ Envelope(kafka[Len(kafka)]) = createdEvent(o)
                       /\ \/ rabbit' = Append(rabbit, createdEvent(o))
                                /\ thr'[t].pc = "c_enqueue"
                          \/ rabbit' = rabbit /\ thr'[t].pc = "done"
                                /\ thr'[t].outcome = "PublishFailure"
               /\ thr[t].pc \notin {"c_pubA", "c_pubB"}
                    => kafka' = kafka /\ rabbit' = rabbit]_vars
  /\ [][SubSeq(kafka', 1, Len(kafka)) = kafka]_vars
  /\ [](\A k \in DOMAIN rabbit :
          IsCreated(rabbit[k])
            => \E a \in DOMAIN kafka : Envelope(kafka[a]) = rabbit[k])

\* createOrder failed on the RabbitMQ emit: the created event is on Kafka and
\* not on RabbitMQ, and no job was enqueued
C30_Witness ==
  \E t \in Clients :
    /\ thr[t].op = "createOrder" /\ thr[t].pc = "done"
    /\ thr[t].outcome = "PublishFailure"
    /\ \E a \in DOMAIN kafka :
         kafka[a] = createdEvent(store[thr[t].id])
    /\ ~HasCreated(rabbit, thr[t].id)
    /\ ~HasJob(thr[t].id)


\* ---------------------------------------------------------------- logins
InitOrdersIdle ==
  /\ store = <<>>
  /\ cacheOrder = <<>> /\ cacheList = <<>> /\ cacheTtl = <<>>
  /\ kafka = <<>> /\ rabbit = <<>> /\ jobs = <<>>
  /\ thr = [t \in Threads |-> IdleThread]
  /\ now = 0
  /\ calls = 0
  /\ storeKeys = TRUE

InitLogin == InitOrdersIdle /\ InitAccount(Accounts)

LoginStep ==
  \E a \in AuthClients :
    \/ CallLogin(a)
    \/ LoginFind(a)
    \/ LoginVerify(a)
    \/ LoginFailSave(a)
    \/ LoginResetSave(a)
    \/ LoginLastSave(a)
    \/ LoginTokens(a)
    \/ SessionSet(a)
    \/ SessionGet(a)
    \/ SessionIndex(a)
    \/ AuthReturn(a)

NextLogin == LoginStep \/ Tick

SpecLogin == InitLogin /\ [][NextLogin]_vars


\* a failed password check of request a reaches the users table in this step
FailedCheckSaved(a) == athr[a].pc = "l_fail_save" /\ athr'[a].pc = "done"

\* request a logs in successfully in this step
LoginSucceeds(a) == athr[a].pc = "s_index" /\ athr'[a].outcome = "ok"

\* C28: every failed password check adds one to the account's
\* failedLoginAttempts, the check that brings it to MAX_FAILED_ATTEMPTS sets
\* lockedUntil LOCK_TIME after the check, no login gets past the password
\* check of an account that is locked at that time, and a login that succeeds
\* leaves failedLoginAttempts = 0 and lockedUntil empty.
C28_FailedLoginsCountAndLock ==
  [][\A a \in AuthClients :
       /\ FailedCheckSaved(a) =>
            /\ user'.failedLoginAttempts = user.failedLoginAttempts + 1
            /\ user'.failedLoginAttempts >= MAX_FAILED_ATTEMPTS =>
                 /\ user'.lockedUntil # NoDate
                 /\ user'.lockedUntil <= clock + LOCK_TIME
       /\ (athr[a].pc = "l_verify" /\ athr'[a].pc \in {"l_reset_save", "l_last_save"})
            => ~isLocked(user, clock)
       /\ LoginSucceeds(a) =>
            user'.failedLoginAttempts = 0 /\ user'.lockedUntil = NoDate]_vars


\* C31: concurrent findOne misses for one id, with no write to the order and no
\* expiry in between: every findOne that returns hands out the stored order,
\* a cache entry order:<id> always holds the stored order, and once a findOne
\* has returned the entry is there, whatever the order of the cache writes.
C31_ConcurrentMissesHarmless ==
  /\ \A id \in DOMAIN cacheOrder : id \in DOMAIN store /\ cacheOrder[id] = store[id]
  /\ \A t \in DOMAIN thr :
       (thr[t].op = "findOne" /\ thr[t].pc = "done" /\ thr[t].outcome = "ok") =>
         /\ thr[t].result = store[thr[t].id]
         /\ thr[t].id \in DOMAIN cacheOrder

\* both requests missed: c2 has written the entry and returned, c1 has read the
\* store and is about to write the entry again
C31_Witness ==
  /\ "c2" \in DOMAIN thr
  /\ thr["c1"].op = "findOne" /\ thr["c1"].pc = "f_set"
  /\ thr["c2"].op = "findOne" /\ thr["c2"].pc = "done" /\ thr["c2"].outcome = "ok"
  /\ thr["c1"].id = thr["c2"].id
  /\ thr["c1"].id \in DOMAIN cacheOrder


\* the cached listings whose key starts with user-orders:<userId>:
ListingsOf(userId) == {k \in DOMAIN cacheList : k[1] = userId}

\* C32: invalidateUserOrdersCache(userId) with store.keys enumerates every
\* cached listing of the user and deletes them all, leaving the entries of
\* other users and the order entries alone; without store.keys, or with no
\* listing cached, it changes nothing; in every case its caller goes on and
\* returns its result, no error is raised.
C32_InvalidateDeletesUserListings ==
  [][\A t \in Clients :
       /\ (thr[t].pc = "inv_keys" /\ thr'[t].pc # "inv_keys") =>
            /\ cacheList' = cacheList /\ cacheOrder' = cacheOrder
            /\ IF storeKeys /\ ListingsOf(thr[t].order.userId) # {}
               THEN /\ thr'[t].pc = "inv_del"
                    /\ thr'[t].keys = ListingsOf(thr[t].order.userId)
               ELSE thr'[t].pc = "done" /\ thr'[t].outcome = "ok"
       /\ (thr[t].pc = "inv_del" /\ thr'[t].pc # "inv_del") =>
            /\ storeKeys
            /\ cacheList' = Del(cacheList, ListingsOf(thr[t].order.userId))
            /\ cacheOrder' = cacheOrder
            /\ thr'[t].pc = "done" /\ thr'[t].outcome = "ok"]_vars

\* the keys of both cached pages of the user were enumerated and are about to be
\* deleted, next to a cached listing of another user
C32_Witness ==
  /\ storeKeys
  /\ thr["c1"].pc = "inv_del"
  /\ thr["c1"].keys = {<<"u1", 1, 10>>, <<"u1", 2, 10>>}
  /\ <<"u2", 1, 10>> \in DOMAIN cacheList


\* C33: every attempt of a process-order job, the first one and every retry,
\* starts at validateOrder with progress 20 and nothing kept from an earlier
\* attempt, and within an attempt each step is entered from the step before
\* it only, so an attempt that reaches the confirmation has run
\* reserveInventory and initiatePayment itself.
C33_RetryRerunsWholePipeline ==
  [][\A w \in Workers :
       /\ (thr[w].pc = "idle" /\ thr'[w].op = "job") =>
            /\ thr'[w] = [IdleThread EXCEPT !.op = "job", !.pc = "f_get",
                                            !.phase = "validate",
                                            !.job = thr'[w].job,
                                            !.id = jobs[thr'[w].job].orderId]
            /\ jobs'[thr'[w].job].progress = 20
       /\ (thr'[w].pc = "j_inventory" /\ thr[w].pc # "j_inventory") =>
            (thr[w].phase = "validate" /\ thr[w].pc \in {"f_get", "f_set"})
       /\ (thr'[w].pc = "j_reserve" /\ thr[w].pc # "j_reserve") =>
            thr[w].pc = "j_inventory"
       /\ (thr'[w].pc = "j_payment" /\ thr[w].pc # "j_payment") =>
            thr[w].pc = "j_reserve"
       /\ (thr'[w].pc = "j_confirm" /\ thr[w].pc # "j_confirm") =>
            thr[w].pc = "j_payment"
       /\ (thr'[w].phase = "confirm" /\ thr[w].phase # "confirm") =>
            thr[w].pc = "j_confirm"]_vars

\* a retry has reserved the inventory again and is about to initiate the
\* payment again
C33_Witness ==
  /\ thr["w1"].op = "job" /\ thr["w1"].pc = "j_payment"
  /\ jobs[thr["w1"].job].attemptsMade >= 1
  /\ jobs[thr["w1"].job].progress = 60


\* worker w takes a step of a send-notification or generate-invoice job
SideJobActs(w) ==
  /\ thr'[w] # thr[w]
  /\ \/ thr[w].op = "job" /\ thr[w].phase \in {"notify", "invoice"}
     \/ thr'[w].op = "job" /\ thr'[w].phase \in {"notify", "invoice"}

\* C34: no step of a send-notification or generate-invoice job, of an attempt
\* that succeeds or of one that fails, changes the orders table or emits an
\* event; a notification leaves the cache alone too, and the only cache
\* change of an invoice job is findOne storing the stored order under
\* order:<id>.
C34_SideJobsKeepStatus ==
  [][\A w \in Workers :
       SideJobActs(w) =>
         /\ store' = store /\ kafka' = kafka /\ rabbit' = rabbit
         /\ cacheList' = cacheList
         /\ \/ cacheOrder' = cacheOrder
            \/ /\ thr[w].phase = "invoice"
               /\ cacheOrder' = Put(cacheOrder, thr[w].id, thr[w].order)]_vars

\* both jobs are over, one attempt of the notification failed before, the
\* invoice job cached the order, and the order still has a status a client
\* gave it meanwhile
C34_Witness ==
  /\ jobs[1].state = "removed" /\ jobs[1].attemptsMade = 2
  /\ jobs[2].name = "generate-invoice" /\ jobs[2].state = "removed"
  /\ Len(store) = 1 /\ 1 \in DOMAIN cacheOrder
  /\ thr["w1"].pc = "done"


\* thread t, running updateStatus or cancelOrder, takes a step of the part of
\* the call that comes before the save: findOne and the validation
BeforeSaveStep(t) ==
  /\ thr[t].op \in {"updateStatus", "cancelOrder"}
  /\ thr'[t] # thr[t]
  /\ \/ thr[t].pc \in {"f_get", "f_read", "f_set"}
     \/ thr[t].pc = "u_save" /\ thr'[t].pc = "done"

\* thread t's updateStatus ends with NotFound or BadRequest in this step
UpdateFails(t) ==
  /\ thr[t].op \in {"updateStatus", "cancelOrder"}
  /\ thr[t].pc # "done" /\ thr'[t].pc = "done"
  /\ thr'[t].outcome \in {"NotFound", "BadRequest"}

\* a step of a call that is bound to fail: the call ends with NotFound or
\* BadRequest in this step, or it holds an order, read by its findOne, whose
\* status does not allow the requested one
FailingUpdateStep(t) ==
  /\ BeforeSaveStep(t)
  /\ \/ UpdateFails(t)
     \/ /\ thr[t].pc \in {"f_set", "u_save"}
        /\ ~validateStatusTransition(thr[t].order.status, thr[t].target)

\* C35 as stated: an updateStatus call that fails with NotFound or
\* InvalidTransition has no side effect at all: it fails out of the part before
\* the save, and no step of a call that fails changes the orders table, the
\* events or the cache.
C35_FailedUpdateHasNoSideEffect ==
  [][\A t \in Clients :
       /\ UpdateFails(t) => BeforeSaveStep(t)
       /\ FailingUpdateStep(t) =>
            /\ store' = store /\ kafka' = kafka /\ rabbit' = rabbit
            /\ cacheList' = cacheList /\ cacheOrder' = cacheOrder]_vars

\* C35 amended: such a call performs no save, emits no event and deletes no
\* cache entry; the one effect it can have is that of its findOne, which on a
\* cache miss stores the order it read under order:<id>.
C35_FailedUpdateOnlyPopulatesCache ==
  [][\A t \in Clients :
       /\ UpdateFails(t) => BeforeSaveStep(t)
       /\ BeforeSaveStep(t) =>
            /\ store' = store /\ kafka' = kafka /\ rabbit' = rabbit
            /\ cacheList' = cacheList
            /\ \/ cacheOrder' = cacheOrder
               \/ /\ thr[t].pc = "f_set"
                  /\ cacheOrder' = Put(cacheOrder, thr[t].id, thr[t].order)]_vars

\* an update to a status the order cannot move to was rejected, after its
\* findOne had stored the order in the cache
C35_Witness ==
  \E t \in Clients :
    /\ thr[t].op = "updateStatus" /\ thr[t].pc = "done"
    /\ thr[t].outcome = "BadRequest"
    /\ thr[t].id \in DOMAIN cacheOrder
    /\ ~validateStatusTransition(cacheOrder[thr[t].id].status, thr[t].target)
    /\ kafka = <<createdEvent(createdOrder(CHOOSE d \in FewDtos : Len(d.items) = 1))>>


\* no operation of the service and no job attempt is in flight
Quiescent ==
  /\ \A t \in DOMAIN thr : thr[t].pc \in {"idle", "done"}
  /\ \A j \in DOMAIN jobs : jobs[j].state # "active"

\* C36: whenever nothing is in flight, every cache entry order:<id> holds the
\* status, cancelledAt and cancelReason of the stored order with that id.
C36_CacheCoherentAtQuiescence ==
  Quiescent =>
    \A id \in DOMAIN cacheOrder :
      /\ id \in DOMAIN store
      /\ cacheOrder[id].status = store[id].status
      /\ cacheOrder[id].cancelledAt = store[id].cancelledAt
      /\ cacheOrder[id].cancelReason = store[id].cancelReason


\* the created event of order id was handed to broker queue q and taken by it
Delivered(q, id) ==
  \E k \in DOMAIN q :
    IsCreated(q[k]) /\ q[k].orderId = id /\ "lost" \notin DOMAIN q[k]

\* C37: createOrder enqueues the process-order job only after the created
\* event was published successfully on both brokers, invalidates the user's
\* listings only after the enqueue succeeded, and when publishing fails no
\* process-order job exists for the persisted order, then or later.
C37_EnqueueOnlyAfterPublish ==
  [][/\ \A t \in Clients :
          thr[t].op = "createOrder" =>
            /\ (Leaves(t, "c_enqueue") /\ Len(jobs') > Len(jobs)) =>
                 /\ Delivered(kafka, thr[t].order.id)
                 /\ Delivered(rabbit, thr[t].order.id)
            /\ (Leaves(t, "inv_keys") \/ Leaves(t, "inv_del")) =>
                 HasJob(thr[t].order.id)
            /\ (Leaves(t, "c_pubA") \/ Leaves(t, "c_pubB")) =>
                 /\ jobs' = jobs
                 /\ thr'[t].pc = "done" => ~HasJob(thr[t].order.id)
     /\ \A j \in DOMAIN jobs' :
          /\ Delivered(kafka', jobs'[j].orderId)
          /\ Delivered(rabbit', jobs'[j].orderId)]_vars


\* the events queue q got in this step
Emitted(q, qNext) == {qNext[k] : k \in (DOMAIN qNext) \ (DOMAIN q)}

\* C38: an ORDER_CREATED event is emitted, to either broker, only for an order
\* that is in the orders table, by the createOrder call that saved it; an
\* ORDER_STATUS_CHANGED event is emitted only by an updateStatus call that has
\* saved, carries the status that save wrote, and a call gets to its publish
\* only through its save.
C38_EventsNeverAheadOfStore ==
  [][/\ \A e \in Emitted(kafka, kafka') \cup Emitted(rabbit, rabbit') :
          IsCreated(e) =>
            /\ e.orderId \in DOMAIN store
            /\ \E t \in DOMAIN thr :
                 /\ thr[t].op = "createOrder" /\ thr[t].pc \in {"c_pubA", "c_pubB"}
                 /\ thr[t].order.id = e.orderId
                 /\ e = createdEvent(thr[t].order)
     /\ \A e \in Emitted(kafka, kafka') :
          IsStatusChanged(e) =>
            /\ e.orderId \in DOMAIN store
            /\ \E t \in DOMAIN thr :
                 /\ thr[t].pc = "u_pubA" /\ thr[t].id = e.orderId
                 /\ e.newStatus = thr[t].target
                 /\ e = statusChangedEvent(thr[t].order)
     /\ \A t \in DOMAIN thr :
          /\ (thr'[t].pc = "u_pubA" /\ thr[t].pc # "u_pubA") =>
               /\ thr[t].pc = "u_save"
               /\ store'[thr[t].id] = thr'[t].order
               /\ store'[thr[t].id].status = thr[t].target
          /\ (thr'[t].pc = "c_pubA" /\ thr[t].pc # "c_pubA") =>
               /\ thr[t].pc = "c_save"
               /\ thr'[t].order.id \in DOMAIN store'
               /\ store'[thr'[t].order.id] = thr'[t].order
          /\ (thr[t].pc \in {"u_pubA", "c_pubA", "c_pubB"} /\ thr'[t].pc # "done") =>
               thr'[t].order = thr[t].order]_vars

\* the job's updateStatus has saved CONFIRMED and emitted the event with
\* newStatus CONFIRMED, after the created event of the same order
C38_Witness ==
  /\ Len(kafka) = 2 /\ IsCreated(kafka[1]) /\ IsStatusChanged(kafka[2])
  /\ kafka[2].newStatus = CONFIRMED /\ kafka[2].orderId = kafka[1].orderId
  /\ store[kafka[2].orderId].status = CONFIRMED


\* ------------------------------------------------------- token rotation
\* a refresh token issued to the registered user by an earlier login; it
\* expires shortly, or a full REFRESH_TOKEN_TIME from now
issuedToken(expiresAt) ==
  [token |-> 1, userId |-> "u1", expiresAt |-> expiresAt, revoked |-> FALSE,
   replacedByToken |-> NoTokenId]

InitRefresh ==
  /\ InitOrdersIdle
  /\ user = registeredUser(ACTIVE, 0)
  /\ \E e \in {1 + ClockStep, 1 + REFRESH_TOKEN_TIME} :
       refreshTokens = <<issuedToken(e)>>
  /\ sessions = <<>>
  /\ userSessions = <<>>
  /\ athr = [a \in AuthClients |-> IdleAuth]
  /\ clock = 1
  /\ logins = 0

RefreshStep ==
  \E a \in AuthClients :
    \/ CallRefresh(a)
    \/ RefreshFind(a)
    \/ RefreshAccess(a)
    \/ RefreshCreate(a)
    \/ RefreshRevoke(a)
    \/ CallLogout(a)
    \/ LogoutFind(a)
    \/ LogoutSave(a)
    \/ AuthReturn(a)

NextRefresh == RefreshStep \/ Tick

SpecRefresh == InitRefresh /\ [][NextRefresh]_vars

\* refreshAccessToken returned a new token pair to the caller
Refreshed(a) ==
  athr[a].op = "refresh" /\ athr[a].pc = "done" /\ athr[a].outcome = "ok"

\* C39: refresh-token rotation is single-use: the call that accepts a token
\* leaves it revoked and replaced by the token it returns, a token that is
\* revoked or expired when looked up is rejected with Unauthorized, and no two
\* refresh requests presenting the same token both succeed, whether they run
\* one after the other or concurrently
C39_RefreshTokenSingleUse ==
  /\ [](\A a, b \in AuthClients :
          (a # b /\ Refreshed(a) /\ Refreshed(b)) => athr[a].token # athr[b].token)
  /\ [][\A a \in AuthClients :
          /\ (athr[a].pc = "r_revoke" /\ athr'[a].pc = "done")
               => /\ refreshTokens'[athr[a].token].revoked
                  /\ refreshTokens'[athr[a].token].replacedByToken = athr[a].newToken
                  /\ isActive(refreshTokens'[athr[a].newToken], clock)
          /\ (athr[a].pc = "r_find" /\ athr'[a].pc # "r_find"
              /\ athr[a].token \in DOMAIN refreshTokens
              /\ ~isActive(refreshTokens[athr[a].token], clock))
               => athr'[a].outcome = "Unauthorized"]_vars


\* ------------------------------------------------------------- sessions
SessionStep ==
  \E a \in AuthClients :
    \/ CallCreateSession(a)
    \/ SessionSet(a)
    \/ SessionGet(a)
    \/ SessionIndex(a)
    \/ CallDeleteSession(a)
    \/ DeleteGet(a)
    \/ DeleteDel(a)
    \/ DeleteList(a)
    \/ DeleteIndex(a)
    \/ CallDeleteAll(a)
    \/ DeleteAllList(a)
    \/ DeleteAllDel(a)
    \/ DeleteAllIndex(a)
    \/ AuthReturn(a)

InitSessions == InitOrdersIdle /\ InitAuth

SpecSessions == InitSessions /\ [][SessionStep]_vars

\* no session call is running
SessionsQuiet == \A a \in AuthClients : athr[a].pc \in {"idle", "done"}

\* getSession(id) finds a session that the index of its user does not list
Unlisted(ss, us) ==
  {id \in DOMAIN ss :
     \/ ss[id].userId \notin DOMAIN us
     \/ \A k \in DOMAIN us[ss[id].userId] : us[ss[id].userId][k] # id}

\* C40: session index consistency: whenever no session call is running, every
\* session getSession can retrieve is listed in the session index of its user,
\* and when deleteAllUserSessions(userId) completes with no other call running,
\* no session of that user is retrievable any more
C40_SessionIndexConsistent ==
  /\ [](SessionsQuiet => Unlisted(sessions, userSessions) = {})
  /\ [][\A a \in AuthClients :
          (athr[a].pc = "a_index" /\ athr'[a].pc = "done" /\ SessionsQuiet')
            => \A id \in DOMAIN sessions' : sessions'[id].userId # athr[a].user.id]_vars

====
